---- MODULE Spec2Model ----
(***************************************************************************)
(* Instant Fact-Check Lens: the App component's analysis state machine,    *)
(* its history list, the PDF text extraction loop, the request and the     *)
(* JSON extraction step of analyzeContent and the layout of the PDF report.*)
(*                                                                         *)
(* Text is a sequence of one-character strings (a run of letters that no   *)
(* operation looks inside is written as one element).  An error message is *)
(* a sequence of message fragments, so that string concatenation is \o.    *)
(***************************************************************************)
EXTENDS Integers, Sequences, FiniteSets, TLC

VARIABLES
  \* ---- App (src/unnamed/part_001, first component) ----
  inputText,      \* useState('')
  selectedImage,  \* useState<File | null>(null)
  selectedPdf,    \* useState<File | null>(null)
  analysisMode,   \* useState('standard')
  state,          \* useState<AnalysisState>({status: 'idle', data: null})
  history,        \* useState<HistoryItem[]>([])
  showHistory,    \* useState(false)
  currentTheme,   \* useState<Theme>('rasta')
  storage,        \* localStorage['factCheckHistory'], as the list it encodes
  mounted,        \* the mount effects have run
  reqs,           \* the handleSubmit invocations, in dispatch order
  now,            \* Date.now()
  \* ---- extractTextFromPdf (src/services/pdfService.ts) ----
  pdf,            \* the run of extractTextFromPdf
  \* ---- analyzeContent, extraction step (src/unnamed/part_000) ----
  ext,            \* the run of the extraction step
  \* ---- generatePdfReport (src/services/reportService.ts) ----
  doc,            \* the run of generatePdfReport
  \* ---- analyzeContent, request (src/unnamed/part_000) ----
  calls           \* the calls of ai.models.generateContent, in order

vars == <<inputText, selectedImage, selectedPdf, analysisMode, state, history,
          showHistory, currentTheme, storage, mounted, reqs, now, pdf, ext, doc,
          calls>>

\* ------------------------------------------------------------------------
\* Bounds of the model
\* ------------------------------------------------------------------------
\* handleSubmit dispatches explored per behaviour
MaxSubmits == 2
\* dispatches explored when the history is filled from nothing
MaxFillSubmits == 12
\* requests in flight at once when the history is filled from nothing
MaxFillInFlight == 2

\* ------------------------------------------------------------------------
\* Helpers on sequences
\* ------------------------------------------------------------------------
Range(s) == {s[i] : i \in DOMAIN s}

Min(a, b) == IF a <= b THEN a ELSE b

\* Array.prototype.slice(from, to) with 0 <= from <= to, zero-based, to excluded
Slice(s, from, to) == SubSeq(s, from + 1, Min(to, Len(s)))

IsSpace(c) == c \in {" ", "\n", "\t"}

RECURSIVE TrimStart(_)
TrimStart(s) ==
  IF s # <<>> /\ IsSpace(Head(s)) THEN TrimStart(Tail(s)) ELSE s

RECURSIVE TrimEnd(_)
TrimEnd(s) ==
  IF s # <<>> /\ IsSpace(s[Len(s)]) THEN TrimEnd(SubSeq(s, 1, Len(s) - 1)) ELSE s

\* String.prototype.trim
Trim(s) == TrimEnd(TrimStart(s))

\* ------------------------------------------------------------------------
\* App: values
\* ------------------------------------------------------------------------
\* A File is its name, its type and its bytes.
NoFile == [name |-> <<>>, type |-> "null", bytes |-> <<>>]

ImageFiles == {[name |-> <<"i">>, type |-> "image/png", bytes |-> <<137, 80, 78>>]}

PdfFiles == {[name |-> <<"d">>, type |-> "application/pdf", bytes |-> <<37>>]}

Texts == {<<>>, <<"q">>}

Themes == {"rasta", "ocean", "royal"}

Modes == {"standard", "deep"}

NoData == [of |-> 0, overall_verdict |-> "null", overall_confidence |-> 0]

NoError == <<>>

IdleState == [status |-> "idle", data |-> NoData, error |-> NoError]

\* The FactCheckResponse objects analyzeContent can resolve with, seen through
\* the two fields the App reads (confidence in hundredths).
Responses == {[overall_verdict |-> "false", overall_confidence |-> 90]}

\* The text extractTextFromPdf can resolve with.
PdfTexts == {<<"[Page 1]", " ", "t", "\n">>}

\* The messages extractTextFromPdf can reject with.
PdfErrors ==
  {<<"No text content found in PDF. It might be an image-only scan.">>,
   <<"Failed to parse PDF file. Ensure the file is a valid PDF.">>}

\* The messages analyzeContent can reject with.
AnalyzeErrors ==
  {<<"Too many requests. Please wait a moment.">>,
   <<"Received empty response from the model.">>,
   <<"Failed to parse the fact-check results. The AI model output was not valid JSON.">>}

DefaultError == <<"An unexpected error occurred. Please try again.">>

HistoryCap == 10

QueryCap == 60

Ellipsis == <<".", ".", ".">>

\* A list a previous session left in localStorage: n entries, newest first,
\* dated before this session.
SavedItem(k) ==
  [id |-> 0 - k, query |-> <<"q">>, date |-> 0 - k,
   verdict |-> "true", confidence |-> 80]

SavedHistory(n) == [k \in 1..n |-> SavedItem(k)]

SavedHistories == {SavedHistory(0), SavedHistory(HistoryCap)}

\* ------------------------------------------------------------------------
\* App: initial state and mount effect
\* ------------------------------------------------------------------------
NoRun == [pc |-> "off"]

AppInit ==
  /\ inputText = <<>>
  /\ selectedImage = NoFile
  /\ selectedPdf = NoFile
  /\ analysisMode = "standard"
  /\ state = IdleState
  /\ history = <<>>
  /\ showHistory = FALSE
  /\ currentTheme = "rasta"
  /\ mounted = FALSE
  /\ reqs = <<>>
  /\ now = 1
  /\ calls = <<>>

\* useEffect(() => { const saved = localStorage.getItem(...); if (saved) setHistory(JSON.parse(saved)) }, [])
\* An absent key and a stored empty list both leave history empty.
LoadHistory ==
  /\ ~mounted
  /\ mounted' = TRUE
  /\ history' = IF storage # <<>> THEN storage ELSE history
  /\ UNCHANGED <<inputText, selectedImage, selectedPdf, analysisMode, state,
                 showHistory, currentTheme, storage, reqs, now, pdf, ext, doc, calls>>

\* ------------------------------------------------------------------------
\* App: the input form, rendered while status is idle or error
\* ------------------------------------------------------------------------
FormShown == mounted /\ state.status \in {"idle", "error"}

setInputText(t) ==
  /\ FormShown
  /\ inputText' = t
  /\ UNCHANGED <<selectedImage, selectedPdf, analysisMode, state, history,
                 showHistory, currentTheme, storage, mounted, reqs, now, pdf, ext, doc, calls>>

handleImageSelect(file) ==
  /\ FormShown
  /\ selectedImage' = file
  /\ selectedPdf' = NoFile
  /\ UNCHANGED <<inputText, analysisMode, state, history,
                 showHistory, currentTheme, storage, mounted, reqs, now, pdf, ext, doc, calls>>

handlePdfSelect(file) ==
  /\ FormShown
  /\ file.type = "application/pdf"
  /\ selectedPdf' = file
  /\ selectedImage' = NoFile
  /\ UNCHANGED <<inputText, analysisMode, state, history,
                 showHistory, currentTheme, storage, mounted, reqs, now, pdf, ext, doc, calls>>

removeMedia ==
  /\ FormShown
  /\ selectedImage # NoFile \/ selectedPdf # NoFile
  /\ selectedImage' = NoFile
  /\ selectedPdf' = NoFile
  /\ UNCHANGED <<inputText, analysisMode, state, history,
                 showHistory, currentTheme, storage, mounted, reqs, now, pdf, ext, doc, calls>>

setAnalysisMode(m) ==
  /\ FormShown
  /\ analysisMode' = m
  /\ UNCHANGED <<inputText, selectedImage, selectedPdf, state, history,
                 showHistory, currentTheme, storage, mounted, reqs, now, pdf, ext, doc, calls>>

\* ------------------------------------------------------------------------
\* App: header and history drawer, rendered in every status
\* ------------------------------------------------------------------------
\* <div ... onClick={() => setState({ status: 'idle', data: null })}>
LogoClick ==
  /\ mounted
  /\ state' = IdleState
  /\ UNCHANGED <<inputText, selectedImage, selectedPdf, analysisMode, history,
                 showHistory, currentTheme, storage, mounted, reqs, now, pdf, ext, doc, calls>>

setCurrentTheme(t) ==
  /\ mounted
  /\ currentTheme' = t
  /\ UNCHANGED <<inputText, selectedImage, selectedPdf, analysisMode, state, history,
                 showHistory, storage, mounted, reqs, now, pdf, ext, doc, calls>>

ToggleHistory ==
  /\ mounted
  /\ showHistory' = ~showHistory
  /\ UNCHANGED <<inputText, selectedImage, selectedPdf, analysisMode, state, history,
                 currentTheme, storage, mounted, reqs, now, pdf, ext, doc, calls>>

\* <button onClick={() => setHistory([])}>Clear</button>
ClearHistory ==
  /\ mounted
  /\ showHistory
  /\ history' = <<>>
  /\ UNCHANGED <<inputText, selectedImage, selectedPdf, analysisMode, state,
                 showHistory, currentTheme, storage, mounted, reqs, now, pdf, ext, doc, calls>>

\* the error banner's dismiss button
DismissError ==
  /\ mounted
  /\ state.status = "error"
  /\ state' = IdleState
  /\ UNCHANGED <<inputText, selectedImage, selectedPdf, analysisMode, history,
                 showHistory, currentTheme, storage, mounted, reqs, now, pdf, ext, doc, calls>>

\* the results view's New Search button
NewSearch ==
  /\ mounted
  /\ state.status = "complete"
  /\ state.data # NoData
  /\ state' = IdleState
  /\ UNCHANGED <<inputText, selectedImage, selectedPdf, analysisMode, history,
                 showHistory, currentTheme, storage, mounted, reqs, now, pdf, ext, doc, calls>>

\* ------------------------------------------------------------------------
\* App: fileToBase64
\* ------------------------------------------------------------------------
\* the 64 digits of base64, digit n at position n + 1
Base64Digits ==
  <<"A", "B", "C", "D", "E", "F", "G", "H", "I", "J", "K", "L", "M", "N", "O", "P",
    "Q", "R", "S", "T", "U", "V", "W", "X", "Y", "Z", "a", "b", "c", "d", "e", "f",
    "g", "h", "i", "j", "k", "l", "m", "n", "o", "p", "q", "r", "s", "t", "u", "v",
    "w", "x", "y", "z", "0", "1", "2", "3", "4", "5", "6", "7", "8", "9", "+", "/">>

Base64Digit(n) == Base64Digits[n + 1]

\* the base64 form of a list of bytes: three bytes make four digits, and a
\* last group of one or two bytes is padded with '='
RECURSIVE Base64(_)
Base64(bytes) ==
  IF bytes = <<>> THEN <<>>
  ELSE IF Len(bytes) = 1
    THEN <<Base64Digit(bytes[1] \div 4), Base64Digit((bytes[1] % 4) * 16), "=", "=">>
  ELSE IF Len(bytes) = 2
    THEN <<Base64Digit(bytes[1] \div 4),
           Base64Digit((bytes[1] % 4) * 16 + bytes[2] \div 16),
           Base64Digit((bytes[2] % 16) * 4), "=">>
  ELSE <<Base64Digit(bytes[1] \div 4),
         Base64Digit((bytes[1] % 4) * 16 + bytes[2] \div 16),
         Base64Digit((bytes[2] % 16) * 4 + bytes[3] \div 64),
         Base64Digit(bytes[3] % 64)>> \o Base64(SubSeq(bytes, 4, Len(bytes)))

\* reader.readAsDataURL(file): reader.result
DataUrl(file) == <<"data:", file.type, ";base64", ",">> \o Base64(file.bytes)

\* String.prototype.split(sep), as the list of the pieces
RECURSIVE Split(_, _)
Split(s, sep) ==
  IF \A i \in DOMAIN s : s[i] # sep THEN <<s>>
  ELSE LET at == CHOOSE i \in DOMAIN s :
                   s[i] = sep /\ \A j \in 1..(i - 1) : s[j] # sep
       IN <<SubSeq(s, 1, at - 1)>> \o Split(SubSeq(s, at + 1, Len(s)), sep)

\* const base64Data = result.split(',')[1]; resolve(base64Data).  The payload
\* of a file of no bytes is the empty string.
fileToBase64(file) == Split(DataUrl(file), ",")[2]

\* ------------------------------------------------------------------------
\* App: handleSubmit, one action per stretch between two awaits.  A handler
\* reads the state of the render that created it: handleSubmit and the
\* addToHistory it calls see inputText, the selected files, analysisMode and
\* history as they were when the form was submitted.
\* ------------------------------------------------------------------------
InFlight == {r \in DOMAIN reqs : reqs[r].pc # "done"}

NoImage == <<>>

\* handleSubmit up to its first await
handleSubmit ==
  /\ FormShown
  \* <button type="submit" disabled={!inputText && !selectedImage && !selectedPdf}>
  /\ ~(inputText = <<>> /\ selectedImage = NoFile /\ selectedPdf = NoFile)
  \* if (!inputText.trim() && !selectedImage && !selectedPdf) return;
  /\ ~(Trim(inputText) = <<>> /\ selectedImage = NoFile /\ selectedPdf = NoFile)
  /\ state' = [status |-> "analyzing", data |-> NoData, error |-> NoError]
  /\ reqs' = Append(reqs,
       [pc |-> IF selectedPdf # NoFile THEN "pdf"
               ELSE IF selectedImage # NoFile THEN "image" ELSE "analyze",
        inputText |-> inputText,
        selectedImage |-> selectedImage,
        selectedPdf |-> selectedPdf,
        analysisMode |-> analysisMode,
        history |-> history,
        finalInputText |-> inputText,
        base64Image |-> NoImage,
        outcome |-> "none",
        updates |-> 0])
  /\ UNCHANGED <<inputText, selectedImage, selectedPdf, analysisMode, history,
                 showHistory, currentTheme, storage, mounted, now, pdf, ext, doc, calls>>

\* query.length > 60 ? query.substring(0, 60) + '...' : query
QueryLabel(query) ==
  IF Len(query) > QueryCap THEN SubSeq(query, 1, QueryCap) \o Ellipsis ELSE query

NewItem(query, result, t) ==
  [id |-> t, query |-> QueryLabel(query), date |-> t,
   verdict |-> result.overall_verdict, confidence |-> result.overall_confidence]

\* newHistory of addToHistory, which it hands to setHistory and to
\* localStorage.setItem; hist is the history of the handler's render.
addToHistory(query, result, hist, t) ==
  Slice(<<NewItem(query, result, t)>> \o hist, 0, HistoryCap)

\* selectedPdf ? selectedPdf.name : (inputText || (selectedImage ? 'Image Analysis' : 'Unknown'))
HistoryQuery(rq) ==
  IF rq.selectedPdf # NoFile THEN rq.selectedPdf.name
  ELSE IF rq.inputText # <<>> THEN rq.inputText
  ELSE IF rq.selectedImage # NoFile THEN <<"Image Analysis">>
  ELSE <<"Unknown">>

\* A request that has returned: its closure is gone, what is kept is how it
\* ended and how many terminal setState calls it made.
Returned(rq, outcome, updates) ==
  [pc |-> "done",
   inputText |-> <<>>,
   selectedImage |-> NoFile,
   selectedPdf |-> NoFile,
   analysisMode |-> "standard",
   history |-> <<>>,
   finalInputText |-> <<>>,
   base64Image |-> NoImage,
   outcome |-> outcome,
   updates |-> updates]

\* handleSubmit without its catch block: the rejection escapes and no state
\* is set
handleSubmitCatch_Missing(r, message) ==
  /\ reqs' = [reqs EXCEPT ![r] = Returned(@, "error", @.updates)]
  /\ UNCHANGED <<inputText, selectedImage, selectedPdf, analysisMode, state, history,
                 showHistory, currentTheme, storage, mounted, now, pdf, ext, doc, calls>>

\* a catch block that also records the failed query in the history
handleSubmitCatch_Records(r, message) ==
  /\ state' = [status |-> "error", data |-> NoData,
               error |-> IF message # <<>> THEN message ELSE DefaultError]
  /\ reqs' = [reqs EXCEPT ![r] = Returned(@, "error", @.updates + 1)]
  /\ history' = addToHistory(HistoryQuery(reqs[r]),
                             [overall_verdict |-> "unknown", overall_confidence |-> 0],
                             reqs[r].history, now)
  /\ storage' = history'
  /\ UNCHANGED <<inputText, selectedImage, selectedPdf, analysisMode,
                 showHistory, currentTheme, mounted, now, pdf, ext, doc, calls>>

\* the catch block of handleSubmit
handleSubmitCatch(r, message) ==
  /\ state' = [status |-> "error", data |-> NoData,
               error |-> IF message # <<>> THEN message ELSE DefaultError]
  /\ reqs' = [reqs EXCEPT ![r] = Returned(@, "error", @.updates + 1)]
  /\ UNCHANGED <<inputText, selectedImage, selectedPdf, analysisMode, history,
                 showHistory, currentTheme, storage, mounted, now, pdf, ext, doc, calls>>

\* await extractTextFromPdf(selectedPdf) resolves
PdfResolve(r, pdfText) ==
  /\ r \in DOMAIN reqs
  /\ reqs[r].pc = "pdf"
  /\ reqs' = [reqs EXCEPT
       ![r].finalInputText =
          (IF @ # <<>> THEN @ \o <<"\n", "\n">> ELSE <<>>)
            \o <<"PDF", " ", "CONTENT:", "\n">> \o pdfText,
       ![r].pc = IF reqs[r].selectedImage # NoFile THEN "image" ELSE "analyze"]
  /\ UNCHANGED <<inputText, selectedImage, selectedPdf, analysisMode, state, history,
                 showHistory, currentTheme, storage, mounted, now, pdf, ext, doc, calls>>

\* the error of extractTextFromPdf thrown on as it is
PdfReject_Unwrapped(r, message) ==
  /\ r \in DOMAIN reqs
  /\ reqs[r].pc = "pdf"
  /\ handleSubmitCatch(r, message)

\* await extractTextFromPdf(selectedPdf) rejects
PdfReject(r, message) ==
  /\ r \in DOMAIN reqs
  /\ reqs[r].pc = "pdf"
  /\ handleSubmitCatch(r, <<"Failed to read PDF file: ">> \o message)

\* await fileToBase64(selectedImage) resolves
ImageResolve(r) ==
  /\ r \in DOMAIN reqs
  /\ reqs[r].pc = "image"
  /\ reqs' = [reqs EXCEPT ![r].base64Image = fileToBase64(reqs[r].selectedImage),
                          ![r].pc = "analyze"]
  /\ UNCHANGED <<inputText, selectedImage, selectedPdf, analysisMode, state, history,
                 showHistory, currentTheme, storage, mounted, now, pdf, ext, doc, calls>>

\* await fileToBase64(selectedImage) rejects with the reader's error event,
\* which carries no message
ImageReject(r) ==
  /\ r \in DOMAIN reqs
  /\ reqs[r].pc = "image"
  /\ handleSubmitCatch(r, <<>>)

\* await analyzeContent(...) resolves; t is what Date.now() returns
AnalyzeResolve(r, response, t) ==
  /\ r \in DOMAIN reqs
  /\ reqs[r].pc = "analyze"
  /\ LET result == [of |-> r,
                    overall_verdict |-> response.overall_verdict,
                    overall_confidence |-> response.overall_confidence]
         newHistory == addToHistory(HistoryQuery(reqs[r]), result, reqs[r].history, t)
     IN /\ history' = newHistory
        /\ storage' = newHistory
        /\ state' = [status |-> "complete", data |-> result, error |-> NoError]
  /\ now' = t
  /\ reqs' = [reqs EXCEPT ![r] = Returned(@, "complete", @.updates + 1)]
  /\ UNCHANGED <<inputText, selectedImage, selectedPdf, analysisMode,
                 showHistory, currentTheme, mounted, pdf, ext, doc, calls>>

\* await analyzeContent(...) rejects
AnalyzeReject(r, message) ==
  /\ r \in DOMAIN reqs
  /\ reqs[r].pc = "analyze"
  /\ handleSubmitCatch(r, message)

\* the continuation of request r, Date.now() returning one of times
Continue(r, times) ==
  \/ \E pdfText \in PdfTexts : PdfResolve(r, pdfText)
  \/ \E message \in PdfErrors : PdfReject(r, message)
  \/ ImageResolve(r)
  \/ ImageReject(r)
  \/ \E response \in Responses, t \in times : AnalyzeResolve(r, response, t)
  \/ \E message \in AnalyzeErrors : AnalyzeReject(r, message)

\* the clock has moved on since the last reading, or has not
RequestStep(r) == Continue(r, {now, now + 1})

\* the input form and the results view
FormAction ==
  \/ \E t \in Texts : setInputText(t)
  \/ \E file \in ImageFiles : handleImageSelect(file)
  \/ \E file \in PdfFiles \cup ImageFiles : handlePdfSelect(file)
  \/ removeMedia
  \/ DismissError
  \/ NewSearch

\* the header and the history drawer
HeaderAction ==
  \/ LogoClick
  \/ ToggleHistory
  \/ ClearHistory

\* controls that no handler of the analysis reads back from another control
SettingsAction ==
  \/ \E m \in Modes : setAnalysisMode(m)
  \/ \E t \in Themes : setCurrentTheme(t)

\* the form is submitted
Submit == Len(reqs) < MaxSubmits /\ handleSubmit

Init ==
  /\ AppInit
  /\ doc = NoRun
  /\ storage \in SavedHistories
  /\ pdf = NoRun
  /\ ext = NoRun

Next ==
  \/ LoadHistory
  \/ FormAction
  \/ HeaderAction
  \/ SettingsAction
  \/ Submit
  \/ \E r \in 1..MaxSubmits : RequestStep(r)

Spec == Init /\ [][Next]_vars

\* the continuation of request r when the clock has moved on since the last
\* reading
LaterStep(r) == Continue(r, {now + 1})

\* The App with the mode and theme controls left alone and no two
\* completions within one millisecond.
NextCore ==
  \/ LoadHistory
  \/ FormAction
  \/ HeaderAction
  \/ Submit
  \/ \E r \in 1..MaxSubmits : LaterStep(r)

SpecCore == Init /\ [][NextCore]_vars

\* The awaited promises of every dispatched request settle.  Nothing is
\* stored when the session starts and the history drawer stays closed.
InitLive ==
  /\ AppInit
  /\ doc = NoRun
  /\ storage = <<>>
  /\ pdf = NoRun
  /\ ext = NoRun

NextLive ==
  \/ LoadHistory
  \/ FormAction
  \/ LogoClick
  \/ Submit
  \/ \E r \in 1..MaxSubmits : LaterStep(r)

SpecLive ==
  /\ InitLive
  /\ [][NextLive]_vars
  /\ \A r \in 1..MaxSubmits : WF_vars(LaterStep(r))

\* A session that starts with nothing stored and runs successful text
\* analyses one after another, at most MaxFillInFlight of them at once.
InitFill ==
  /\ AppInit
  /\ doc = NoRun
  /\ storage = <<>>
  /\ pdf = NoRun
  /\ ext = NoRun

SubmitFill ==
  /\ Len(reqs) < MaxFillSubmits
  /\ Cardinality(InFlight) < MaxFillInFlight
  /\ handleSubmit

NextFill ==
  \/ LoadHistory
  \/ setInputText(<<"q">>) /\ inputText = <<>>
  \/ LogoClick /\ state.status = "analyzing"
  \/ NewSearch
  \/ SubmitFill
  \/ \E r \in 1..MaxFillSubmits, response \in Responses :
        AnalyzeResolve(r, response, now + 1)

SpecFill == InitFill /\ [][NextFill]_vars

\* ------------------------------------------------------------------------
\* extractTextFromPdf (src/services/pdfService.ts)
\* ------------------------------------------------------------------------
\* pages of the largest document explored
MaxPages == 11

PageLimit == 10

\* What getTextContent can return for a page, as the list of its items' str:
\* no item (an image-only page), two empty items, one item of text.
PageItems == {<<>>, << <<>>, <<>> >>, << <<"t">> >>}

\* What a rejected promise of pdf.js or of file.arrayBuffer() carries as its
\* message; <<>> is an error without one.
PdfLibErrors == {<<>>, <<"Invalid PDF structure.">>}

\* Array.prototype.join(' ')
RECURSIVE Join(_)
Join(items) ==
  IF items = <<>> THEN <<>>
  ELSE IF Len(items) = 1 THEN Head(items)
  ELSE Head(items) \o <<" ">> \o Join(Tail(items))

\* `[Page ${i}]`
PageMarker(i) == "[Page " \o ToString(i) \o "]"

\* `[...Truncated. Analysis limited to first ${maxPages} pages...]`
TruncationNotice(maxPages) ==
  "[...Truncated. Analysis limited to first " \o ToString(maxPages) \o " pages...]"

\* the page cap forgotten
MaxPagesOf_NoCap(numPages) == numPages

\* const maxPages = Math.min(pdf.numPages, 10)
MaxPagesOf(numPages) == Min(numPages, PageLimit)

PdfStart ==
  [pc |-> "open", numPages |-> 0, maxPages |-> 0, i |-> 0, fullText |-> <<>>,
   read |-> <<>>, texts |-> <<>>, message |-> <<>>]

\* await loadingTask.promise resolves with a document of numPages pages
PdfOpen(numPages) ==
  /\ pdf.pc = "open"
  /\ pdf' = [pdf EXCEPT !.pc = "loop", !.numPages = numPages,
                        !.maxPages = MaxPagesOf(numPages), !.i = 1]
  /\ UNCHANGED <<inputText, selectedImage, selectedPdf, analysisMode, state, history,
                 showHistory, currentTheme, storage, mounted, reqs, now, ext, doc, calls>>

\* one turn of the loop: getPage(i) and getTextContent() resolve
PdfReadPage(items) ==
  /\ pdf.pc = "loop"
  /\ pdf.i <= pdf.maxPages
  /\ LET pageText == Join(items)
     IN pdf' = [pdf EXCEPT
          !.fullText = @ \o <<PageMarker(pdf.i), " ">> \o pageText \o <<"\n">>,
          !.read = Append(@, pdf.i),
          !.texts = Append(@, pageText),
          !.i = @ + 1]
  /\ UNCHANGED <<inputText, selectedImage, selectedPdf, analysisMode, state, history,
                 showHistory, currentTheme, storage, mounted, reqs, now, ext, doc, calls>>

\* the catch block: throw new Error(error.message || "Failed to parse PDF file. ...")
PdfCatch(message) ==
  IF message # <<>> THEN message
  ELSE <<"Failed to parse PDF file. Ensure the file is a valid PDF.">>

\* after the loop: the truncation notice, the empty check, the return
PdfFinish ==
  /\ pdf.pc = "loop"
  /\ pdf.i > pdf.maxPages
  /\ LET fullText ==
           IF pdf.numPages > pdf.maxPages
           THEN pdf.fullText \o <<"\n", TruncationNotice(pdf.maxPages)>>
           ELSE pdf.fullText
     IN IF Trim(fullText) = <<>>
        THEN pdf' = [pdf EXCEPT
               !.pc = "rejected", !.fullText = fullText,
               !.message = PdfCatch(
                  <<"No text content found in PDF. It might be an image-only scan.">>)]
        ELSE pdf' = [pdf EXCEPT !.pc = "resolved", !.fullText = fullText]
  /\ UNCHANGED <<inputText, selectedImage, selectedPdf, analysisMode, state, history,
                 showHistory, currentTheme, storage, mounted, reqs, now, ext, doc, calls>>

\* an awaited promise rejects: file.arrayBuffer(), loadingTask.promise,
\* getPage(i) or getTextContent()
PdfFail(message) ==
  /\ \/ pdf.pc = "open"
     \/ pdf.pc = "loop" /\ pdf.i <= pdf.maxPages
  /\ pdf' = [pdf EXCEPT !.pc = "rejected", !.message = PdfCatch(message)]
  /\ UNCHANGED <<inputText, selectedImage, selectedPdf, analysisMode, state, history,
                 showHistory, currentTheme, storage, mounted, reqs, now, ext, doc, calls>>

InitPdf ==
  /\ AppInit
  /\ doc = NoRun
  /\ storage = <<>>
  /\ pdf = PdfStart
  /\ ext = NoRun

NextPdf ==
  \/ \E numPages \in 0..MaxPages : PdfOpen(numPages)
  \/ \E items \in PageItems : PdfReadPage(items)
  \/ PdfFinish
  \/ \E message \in PdfLibErrors : PdfFail(message)

SpecPdf == InitPdf /\ [][NextPdf]_vars

\* ------------------------------------------------------------------------
\* analyzeContent: from response.text to the returned object or the thrown
\* Error (src/unnamed/part_000, lines 76-125)
\* ------------------------------------------------------------------------
\* longest text before and after the body of a response
MaxAffix == 2

Quote == "\""

\* a wrong indexOf: the last occurrence instead of the first
IndexOf_Last(text, c) ==
  IF \E i \in DOMAIN text : text[i] = c
  THEN (CHOOSE i \in DOMAIN text :
          text[i] = c /\ \A j \in (i + 1)..Len(text) : text[j] # c) - 1
  ELSE 0 - 1

\* a wrong lastIndexOf: the first occurrence instead of the last
LastIndexOf_First(text, c) ==
  IF \E i \in DOMAIN text : text[i] = c
  THEN (CHOOSE i \in DOMAIN text :
          text[i] = c /\ \A j \in 1..(i - 1) : text[j] # c) - 1
  ELSE 0 - 1

\* String.prototype.indexOf(c), zero-based, -1 when absent
IndexOf(text, c) ==
  IF \E i \in DOMAIN text : text[i] = c
  THEN (CHOOSE i \in DOMAIN text :
          text[i] = c /\ \A j \in 1..(i - 1) : text[j] # c) - 1
  ELSE 0 - 1

\* String.prototype.lastIndexOf(c), zero-based, -1 when absent
LastIndexOf(text, c) ==
  IF \E i \in DOMAIN text : text[i] = c
  THEN (CHOOSE i \in DOMAIN text :
          text[i] = c /\ \A j \in (i + 1)..Len(text) : text[j] # c) - 1
  ELSE 0 - 1

Clamp(n, len) == IF n < 0 THEN 0 ELSE IF n > len THEN len ELSE n

\* String.prototype.substring(start, end): both ends clamped to the text, and
\* swapped when start > end
Substring(text, start, end) ==
  LET a == Clamp(start, Len(text))
      b == Clamp(end, Len(text))
  IN SubSeq(text, Min(a, b) + 1, IF a <= b THEN b ELSE a)

\* ---- JSON.parse on the characters of the model --------------------------
\* A value is [t, s, m]: t its type, s the characters of a string (the one
\* element of a number or of true and false), m the
\* members of an object or the elements of an array, each [k, v] (k is <<>>
\* for an array element).
NullValue == [t |-> "null", s |-> <<>>, m |-> <<>>]

Undefined == [t |-> "undefined", s |-> <<>>, m |-> <<>>]

ParseFail == [ok |-> FALSE, v |-> Undefined, next |-> 0]

IsJsonSpace(c) == c \in {" ", "\n", "\t", "\r"}

\* the numbers written in the responses, each one element of the text
NumberAtoms == {"0", "0.9"}

RECURSIVE SkipWs(_, _)
SkipWs(text, i) ==
  IF i <= Len(text) /\ IsJsonSpace(text[i]) THEN SkipWs(text, i + 1) ELSE i

\* a string literal starting at the quote text[i]; there are no escapes in the
\* model's characters, and a raw control character is not allowed inside
ParseString(text, i) ==
  IF \E j \in (i + 1)..Len(text) : text[j] = Quote
  THEN LET j == CHOOSE j \in (i + 1)..Len(text) :
                  text[j] = Quote /\ \A k \in (i + 1)..(j - 1) : text[k] # Quote
           body == SubSeq(text, i + 1, j - 1)
       IN IF \E k \in DOMAIN body : body[k] \in {"\n", "\t", "\r"}
          THEN ParseFail
          ELSE [ok |-> TRUE, v |-> [t |-> "str", s |-> body, m |-> <<>>], next |-> j + 1]
  ELSE ParseFail

\* obj[key] = value while an object is built: a name already there keeps its
\* place and takes the new value
SetMember(members, key, value) ==
  IF \E i \in DOMAIN members : members[i].k = key
  THEN [i \in DOMAIN members |->
          IF members[i].k = key THEN [k |-> key, v |-> value] ELSE members[i]]
  ELSE Append(members, [k |-> key, v |-> value])

RECURSIVE ParseValue(_, _), ParseMembers(_, _, _), ParseElements(_, _, _)

ParseValue(text, i) ==
  IF i > Len(text) THEN ParseFail
  ELSE IF text[i] = "{" THEN
    LET j == SkipWs(text, i + 1)
    IN IF j <= Len(text) /\ text[j] = "}"
       THEN [ok |-> TRUE, v |-> [t |-> "obj", s |-> <<>>, m |-> <<>>], next |-> j + 1]
       ELSE ParseMembers(text, j, <<>>)
  ELSE IF text[i] = "[" THEN
    LET j == SkipWs(text, i + 1)
    IN IF j <= Len(text) /\ text[j] = "]"
       THEN [ok |-> TRUE, v |-> [t |-> "arr", s |-> <<>>, m |-> <<>>], next |-> j + 1]
       ELSE ParseElements(text, j, <<>>)
  ELSE IF text[i] = Quote THEN ParseString(text, i)
  ELSE IF text[i] = "null" THEN [ok |-> TRUE, v |-> NullValue, next |-> i + 1]
  ELSE IF text[i] \in {"true", "false"}
    THEN [ok |-> TRUE, v |-> [t |-> "bool", s |-> <<text[i]>>, m |-> <<>>], next |-> i + 1]
  ELSE IF text[i] \in NumberAtoms
    THEN [ok |-> TRUE, v |-> [t |-> "num", s |-> <<text[i]>>, m |-> <<>>], next |-> i + 1]
  ELSE ParseFail

\* "key" : value, then a comma and more members, or the closing brace
ParseMembers(text, i, acc) ==
  IF i > Len(text) \/ text[i] # Quote THEN ParseFail
  ELSE LET key == ParseString(text, i)
       IN IF ~key.ok THEN ParseFail
          ELSE LET c == SkipWs(text, key.next)
               IN IF c > Len(text) \/ text[c] # ":" THEN ParseFail
                  ELSE LET val == ParseValue(text, SkipWs(text, c + 1))
                       IN IF ~val.ok THEN ParseFail
                          ELSE LET d == SkipWs(text, val.next)
                                   members == SetMember(acc, key.v.s, val.v)
                               IN IF d > Len(text) THEN ParseFail
                                  ELSE IF text[d] = ","
                                    THEN ParseMembers(text, SkipWs(text, d + 1), members)
                                  ELSE IF text[d] = "}"
                                    THEN [ok |-> TRUE,
                                          v |-> [t |-> "obj", s |-> <<>>, m |-> members],
                                          next |-> d + 1]
                                  ELSE ParseFail

\* value, then a comma and more elements, or the closing bracket
ParseElements(text, i, acc) ==
  LET val == ParseValue(text, i)
  IN IF ~val.ok THEN ParseFail
     ELSE LET d == SkipWs(text, val.next)
              elements == Append(acc, [k |-> <<>>, v |-> val.v])
          IN IF d > Len(text) THEN ParseFail
             ELSE IF text[d] = ","
               THEN ParseElements(text, SkipWs(text, d + 1), elements)
             ELSE IF text[d] = "]"
               THEN [ok |-> TRUE,
                     v |-> [t |-> "arr", s |-> <<>>, m |-> elements],
                     next |-> d + 1]
             ELSE ParseFail

\* JSON.parse(text): one value with nothing but white space around it
JsonParse(text) ==
  LET r == ParseValue(text, SkipWs(text, 1))
  IN IF r.ok /\ SkipWs(text, r.next) > Len(text) THEN r ELSE ParseFail

\* value[key] of a value that is neither null nor undefined: the last member
\* of that name of an object, undefined for anything else
Get(value, key) ==
  IF value.t = "obj" /\ \E i \in DOMAIN value.m : value.m[i].k = key
  THEN value.m[CHOOSE i \in DOMAIN value.m :
                 value.m[i].k = key /\ \A j \in (i + 1)..Len(value.m) : value.m[j].k # key].v
  ELSE Undefined

\* a wrong truth test: an empty list counts as missing
Truthy_NonEmpty(value) ==
  CASE value.t \in {"undefined", "null"} -> FALSE
    [] value.t = "str" -> value.s # <<>>
    [] value.t = "bool" -> value.s = <<"true">>
    [] value.t = "num" -> value.s # <<"0">>
    [] value.t = "arr" -> value.m # <<>>
    [] OTHER -> TRUE

\* !value is false
Truthy(value) ==
  CASE value.t \in {"undefined", "null"} -> FALSE
    [] value.t = "str" -> value.s # <<>>
    [] value.t = "bool" -> value.s = <<"true">>
    [] value.t = "num" -> value.s # <<"0">>
    [] OTHER -> TRUE

\* ---- the extraction step -------------------------------------------------
EmptyResponseError == <<"Received empty ", "response", " from the model.">>

NoJsonError == <<"Response did not contain valid ", "JSON", " structure.">>

MissingFieldsError == <<"Response ", "JSON", " missing required fields.">>

ParseFailedError ==
  <<"Failed to parse the fact-check results. The AI model output was not valid ",
    "JSON", ".">>

\* what the try block of lines 81-100 does with resultText: the object it
\* returns, or the error it throws ("syntax" and "type" stand for the
\* SyntaxError of JSON.parse and the TypeError of reading a field of null)
TryExtract(resultText) ==
  LET firstOpen == IndexOf(resultText, "{")
      lastClose == LastIndexOf(resultText, "}")
      jsonString == Substring(resultText, firstOpen, lastClose + 1)
      parsed == JsonParse(jsonString)
  IN IF firstOpen = 0 - 1 \/ lastClose = 0 - 1
       THEN [thrown |-> "nojson", jsonString |-> <<>>, value |-> Undefined]
     ELSE IF ~parsed.ok
       THEN [thrown |-> "syntax", jsonString |-> jsonString, value |-> Undefined]
     ELSE IF parsed.v.t = "null"
       THEN [thrown |-> "type", jsonString |-> jsonString, value |-> Undefined]
     ELSE IF ~Truthy(Get(parsed.v, <<"claims">>))
             \/ ~Truthy(Get(parsed.v, <<"overall_verdict">>))
       THEN [thrown |-> "fields", jsonString |-> jsonString, value |-> Undefined]
     ELSE [thrown |-> "none", jsonString |-> jsonString, value |-> parsed.v]

\* error.message.includes(word), the message being cut at the words looked for
Includes(message, word) == \E i \in DOMAIN message : message[i] = word

\* the outer catch block, lines 107-125: the message of the Error it throws
MapError(message) ==
  IF message = <<>> THEN <<"An unexpected error occurred during analysis.">>
  ELSE IF Includes(message, "API Key is missing")
    THEN <<"API Key configuration error. Please check your environment.">>
  ELSE IF Includes(message, "400")
    THEN <<"Request failed (400). Please try different content.">>
  ELSE IF Includes(message, "403")
    THEN <<"Permission denied. Please check API key and enabled services.">>
  ELSE IF Includes(message, "404") THEN <<"Model or resource not found.">>
  ELSE IF Includes(message, "429") THEN <<"Too many requests. Please wait a moment.">>
  ELSE IF Includes(message, "SAFETY") THEN <<"Content blocked due to safety settings.">>
  ELSE IF Includes(message, "JSON") \/ Includes(message, "response") THEN message
  ELSE <<"Analysis failed: ">> \o message

\* the run of the step on the text prefix \o body \o suffix
ExtStart(prefix, body, suffix) ==
  [pc |-> "response", prefix |-> prefix, body |-> body, suffix |-> suffix,
   resultText |-> prefix \o body \o suffix, raw |-> <<>>, source |-> Undefined,
   thrown |-> "none", jsonString |-> <<>>, value |-> Undefined, message |-> <<>>]

\* lines 76-125 on the text of the response: how the promise of
\* analyzeContent settles
Settle(resultText) ==
  IF resultText = <<>>
  THEN [pc |-> "rejected", thrown |-> "empty", jsonString |-> <<>>,
        value |-> Undefined, message |-> MapError(EmptyResponseError)]
  ELSE LET got == TryExtract(resultText)
       IN IF got.thrown = "none"
          THEN [pc |-> "resolved", thrown |-> "none", jsonString |-> got.jsonString,
                value |-> got.value, message |-> <<>>]
          \* the inner catch replaces whatever was thrown
          ELSE [pc |-> "rejected", thrown |-> got.thrown, jsonString |-> got.jsonString,
                value |-> Undefined, message |-> MapError(ParseFailedError)]

\* lines 76-125 after generateContent has resolved: no await, one step
ExtractJson ==
  /\ ext.pc = "response"
  /\ \E settled \in {Settle(ext.resultText)} :
       ext' = [ext EXCEPT !.pc = settled.pc, !.thrown = settled.thrown,
                          !.jsonString = settled.jsonString,
                          !.value = settled.value, !.message = settled.message]
  /\ UNCHANGED <<inputText, selectedImage, selectedPdf, analysisMode, state, history,
                 showHistory, currentTheme, storage, mounted, reqs, now, pdf, doc, calls>>

\* ---- the responses explored ---------------------------------------------
Str(chars) == <<Quote>> \o chars \o <<Quote>>

\* {"claims":[],"overall_verdict":"unknown"}
JsonEmptyClaims ==
  <<"{">> \o Str(<<"claims">>) \o <<":", "[", "]", ",">>
    \o Str(<<"overall_verdict">>) \o <<":">> \o Str(<<"unknown">>) \o <<"}">>

\* {"claims":[{"verdict":"false"}],"overall_verdict":"false"}
JsonOneClaim ==
  <<"{">> \o Str(<<"claims">>) \o <<":", "[", "{">> \o Str(<<"verdict">>) \o <<":">>
    \o Str(<<"false">>) \o <<"}", "]", ",">>
    \o Str(<<"overall_verdict">>) \o <<":">> \o Str(<<"false">>) \o <<"}">>

\* {"claims":[],"overall_verdict":"true","explainable_summary":"a } a"},
\* pretty-printed over several lines
JsonBraceInString ==
  <<"{", "\n", " ">> \o Str(<<"claims">>) \o <<":", " ", "[", "]", ",", "\n", " ">>
    \o Str(<<"overall_verdict">>) \o <<":", " ">> \o Str(<<"true">>) \o <<",", "\n", " ">>
    \o Str(<<"explainable_summary">>) \o <<":", " ">> \o Str(<<"a", " ", "}", " ", "a">>)
    \o <<"\n", "}">>

\* {"claims":[]}
JsonNoVerdict == <<"{">> \o Str(<<"claims">>) \o <<":", "[", "]", "}">>

\* {"overall_verdict":"true"}
JsonNoClaims ==
  <<"{">> \o Str(<<"overall_verdict">>) \o <<":">> \o Str(<<"true">>) \o <<"}">>

\* {"claims":[}
JsonBroken == <<"{">> \o Str(<<"claims">>) \o <<":", "[", "}">>

\* {"claims":[],"overall_verdict":""}
JsonEmptyVerdict ==
  <<"{">> \o Str(<<"claims">>) \o <<":", "[", "]", ",">>
    \o Str(<<"overall_verdict">>) \o <<":">> \o Str(<<>>) \o <<"}">>

\* {"claims":null,"overall_verdict":"true"}
JsonNullClaims ==
  <<"{">> \o Str(<<"claims">>) \o <<":", "null", ",">>
    \o Str(<<"overall_verdict">>) \o <<":">> \o Str(<<"true">>) \o <<"}">>

\* {"claims":[{"verdict":"false","evidence":[]}],"overall_verdict":"false"}
JsonFalseNoEvidence ==
  <<"{">> \o Str(<<"claims">>) \o <<":", "[", "{">> \o Str(<<"verdict">>) \o <<":">>
    \o Str(<<"false">>) \o <<",">> \o Str(<<"evidence">>) \o <<":", "[", "]", "}", "]", ",">>
    \o Str(<<"overall_verdict">>) \o <<":">> \o Str(<<"false">>) \o <<"}">>

\* {"claims":[{"verdict":"true","evidence":[{"source_url":"u"}]}],
\*  "overall_verdict":"true","overall_confidence":0.9}
JsonWithEvidence ==
  <<"{">> \o Str(<<"claims">>) \o <<":", "[", "{">> \o Str(<<"verdict">>) \o <<":">>
    \o Str(<<"true">>) \o <<",">> \o Str(<<"evidence">>) \o <<":", "[", "{">>
    \o Str(<<"source_url">>) \o <<":">> \o Str(<<"u">>) \o <<"}", "]", "}", "]", ",">>
    \o Str(<<"overall_verdict">>) \o <<":">> \o Str(<<"true">>) \o <<",">>
    \o Str(<<"overall_confidence">>) \o <<":", "0.9", "}">>

\* {"claims":[],"overall_verdict":"unknown","meta":{},"notes":null,
\*  "flag":false,"claims":[null]}
JsonMixed ==
  <<"{">> \o Str(<<"claims">>) \o <<":", "[", "]", ",">>
    \o Str(<<"overall_verdict">>) \o <<":">> \o Str(<<"unknown">>) \o <<",">>
    \o Str(<<"meta">>) \o <<":", "{", "}", ",">>
    \o Str(<<"notes">>) \o <<":", "null", ",">>
    \o Str(<<"flag">>) \o <<":", "false", ",">>
    \o Str(<<"claims">>) \o <<":", "[", "null", "]", "}">>

Bodies ==
  {JsonEmptyClaims, JsonOneClaim, JsonBraceInString, JsonNoVerdict, JsonNoClaims,
   JsonBroken, JsonEmptyVerdict, JsonNullClaims, JsonFalseNoEvidence, JsonWithEvidence,
   JsonMixed,
   <<"null">>, <<>>}

\* a letter, white space, a code fence (the run of three backquotes, written
\* "fence"), braces
AffixChars == {"a", " ", "fence", "{", "}"}

Affixes == UNION {[1..n -> AffixChars] : n \in 0..MaxAffix}

InitExtract ==
  /\ AppInit
  /\ doc = NoRun
  /\ storage = <<>>
  /\ pdf = NoRun
  /\ \E prefix \in Affixes, body \in Bodies, suffix \in Affixes :
       ext = ExtStart(prefix, body, suffix)

NextExtract == ExtractJson

SpecExtract == InitExtract /\ [][NextExtract]_vars

\* ------------------------------------------------------------------------
\* The JSON download of a result, read again by the extraction step
\* (src/unnamed/part_002, lines 33-43)
\* ------------------------------------------------------------------------
RECURSIVE Spaces(_)
Spaces(n) == IF n = 0 THEN <<>> ELSE <<" ">> \o Spaces(n - 1)

RECURSIVE Stringify(_, _), StringifyMembers(_, _, _)

\* JSON.stringify(value, null, 2) of a parsed value, at this indentation
Stringify(value, indent) ==
  CASE value.t = "str" -> Str(value.s)
    [] value.t \in {"num", "bool"} -> value.s
    [] value.t = "arr" ->
         IF value.m = <<>> THEN <<"[", "]">>
         ELSE <<"[", "\n">> \o StringifyMembers(value.m, 1, indent + 2)
                \o <<"\n">> \o Spaces(indent) \o <<"]">>
    [] value.t = "obj" ->
         IF value.m = <<>> THEN <<"{", "}">>
         ELSE <<"{", "\n">> \o StringifyMembers(value.m, 1, indent + 2)
                \o <<"\n">> \o Spaces(indent) \o <<"}">>
    [] OTHER -> <<"null">>

\* the members from the i-th on, one a line; an object's member has its name
StringifyMembers(members, i, indent) ==
  Spaces(indent)
    \o (IF members[i].k # <<>> THEN Str(members[i].k) \o <<":", " ">> ELSE <<>>)
    \o Stringify(members[i].v, indent)
    \o (IF i < Len(members)
        THEN <<",", "\n">> \o StringifyMembers(members, i + 1, indent)
        ELSE <<>>)

\* a wrong download: the claims alone
handleJsonDownload_ClaimsOnly(data) == Stringify(Get(data, <<"claims">>), 0)

\* the text of the file handleJsonDownload writes
handleJsonDownload(data) == Stringify(data, 0)

\* the downloaded file of the returned object comes back as a response text
ReadExport ==
  /\ ext.pc = "resolved"
  /\ ext.source = Undefined
  /\ ext' = [ExtStart(<<>>, handleJsonDownload(ext.value), <<>>) EXCEPT
               !.source = ext.value]
  /\ UNCHANGED <<inputText, selectedImage, selectedPdf, analysisMode, state, history,
                 showHistory, currentTheme, storage, mounted, reqs, now, pdf, doc, calls>>

NextExport == ExtractJson \/ ReadExport

SpecExport == InitExtract /\ [][NextExport]_vars

\* ------------------------------------------------------------------------
\* One request through analyzeContent and back into handleSubmit
\* (src/unnamed/part_000, lines 28-127; src/unnamed/part_001, lines 324-334)
\* ------------------------------------------------------------------------
\* longest text before and after the body of a response of this request
MaxPipeAffix == 1

PipeAffixes == UNION {[1..n -> AffixChars] : n \in 0..MaxPipeAffix}

\* The messages of the errors getAiClient and generateContent throw, cut at
\* the words the outer catch looks for; the empty one is an error without a
\* message.
ServiceErrors ==
  {<<"API Key is missing", ". Please ensure process.env.API_KEY is configured.">>,
   <<"[", "400", " Bad Request] request payload is invalid">>,
   <<"[", "403", " Forbidden] the caller does not have permission">>,
   <<"[", "404", " Not Found] models/x is not found">>,
   <<"[", "429", " Too Many Requests] quota exceeded">>,
   <<"[", "429", " Too Many Requests] quota exceeded, limit: 1", "400", ", retry in 30s">>,
   <<"[", "403", " Forbidden] quota project 1", "400", "7 is not enabled">>,
   <<"Candidate was blocked due to ", "SAFETY">>,
   <<"Failed to fetch">>,
   <<"Unexpected end of ", "JSON", " input">>,
   <<"No ", "response", " from 10.0.0.7:443">>,
   <<>>}

RECURSIVE Concat(_)
Concat(chars) == IF chars = <<>> THEN "" ELSE chars[1] \o Concat(Tail(chars))

\* the two fields of the returned object that the App reads (confidence in
\* hundredths)
ViewOf(value) ==
  LET verdict == Get(value, <<"overall_verdict">>)
      confidence == Get(value, <<"overall_confidence">>)
  IN [overall_verdict |-> IF verdict.t = "str" THEN Concat(verdict.s) ELSE verdict.t,
      overall_confidence |-> IF confidence.t = "num" /\ confidence.s = <<"0.9">>
                             THEN 90 ELSE 0]

\* await ai.models.generateContent(...) resolves with a response whose text is
\* prefix \o body \o suffix
GenerateResolve(prefix, body, suffix) ==
  /\ Len(reqs) >= 1
  /\ reqs[1].pc = "analyze"
  /\ ext.pc = "off"
  /\ ext' = ExtStart(prefix, body, suffix)
  /\ UNCHANGED <<inputText, selectedImage, selectedPdf, analysisMode, state, history,
                 showHistory, currentTheme, storage, mounted, reqs, now, pdf, doc, calls>>

\* getAiClient() or generateContent(...) throws: the outer catch rethrows
GenerateReject(raw) ==
  /\ Len(reqs) >= 1
  /\ reqs[1].pc = "analyze"
  /\ ext.pc = "off"
  /\ ext' = [ExtStart(<<>>, <<>>, <<>>) EXCEPT
               !.pc = "rejected", !.thrown = "service", !.raw = raw,
               !.message = MapError(raw)]
  /\ UNCHANGED <<inputText, selectedImage, selectedPdf, analysisMode, state, history,
                 showHistory, currentTheme, storage, mounted, reqs, now, pdf, doc, calls>>

\* the promise of analyzeContent settles and handleSubmit goes on
PipeReturn ==
  /\ Len(reqs) >= 1
  /\ IF ext.pc = "resolved" THEN AnalyzeResolve(1, ViewOf(ext.value), now + 1)
     ELSE ext.pc = "rejected" /\ AnalyzeReject(1, ext.message)

PipeSubmit == Len(reqs) < 1 /\ handleSubmit

InitPipe ==
  /\ AppInit
  /\ doc = NoRun
  /\ storage = <<>>
  /\ pdf = NoRun
  /\ ext = NoRun

NextPipe ==
  \/ LoadHistory
  \/ \E t \in Texts : setInputText(t)
  \/ LogoClick
  \/ DismissError
  \/ NewSearch
  \/ PipeSubmit
  \/ \E prefix \in PipeAffixes, body \in Bodies, suffix \in PipeAffixes :
       GenerateResolve(prefix, body, suffix)
  \/ \E raw \in ServiceErrors : GenerateReject(raw)
  \/ ExtractJson
  \/ PipeReturn

SpecPipe == InitPipe /\ [][NextPipe]_vars

\* ------------------------------------------------------------------------
\* generatePdfReport (src/services/reportService.ts)
\* ------------------------------------------------------------------------
\* longest list of claims in a result laid out
MaxClaims == 2

\* doc.internal.pageSize.getHeight() of an a4 page, in mm.  jsPDF gives
\* 297.0000833; every y and every height of the layout is a whole number, for
\* which y + h > 277.0000833 and y + h > 277 are the same test.
PageHeight == 297

Margin == 20

TopMargin == 20

\* The numbers of lines splitTextToSize returns for the texts of a result.
SummaryLineCounts == {1, 32}

ClaimLineCounts == {2, 45}

ReasoningLineCounts == {1, 35}

\* The evidence lists of a claim: for each item its quote, <<>> when it has
\* none.
EvidenceLists == {<<>>, << <<"s">>, <<>> >>, << <<>>, <<>>, <<"s">> >>}

ReportClaims ==
  [claim_text : ClaimLineCounts, reasoning : ReasoningLineCounts,
   evidence : EvidenceLists]

\* A FactCheckResponse, seen through what the layout depends on.
ReportData ==
  [explainable_summary : SummaryLineCounts,
   claims : UNION {[1..n -> ReportClaims] : n \in 0..MaxClaims}]

\* new Date().toLocaleString() at two moments
Times == {"1/2/2026, 9:00:00 AM", "11/12/2026, 10:00:00 AM"}

NoLayout == [time |-> "", pages |-> 0, blocks |-> <<>>, breaks |-> <<>>]

\* the call generatePdfReport(data), the run-th on this result; a new jsPDF
\* has one page
ReportStart(data, time, run, prior) ==
  [pc |-> "header", data |-> data, time |-> time, run |-> run, prior |-> prior,
   y |-> TopMargin, pages |-> 1, page |-> 1, idx |-> 0, ev |-> 0,
   blocks |-> <<>>, breaks |-> <<>>, totalPages |-> 0, i |-> 0, footers |-> <<>>]

\* something drawn on a page, from y down h
Block(kind, page, y, h) == [kind |-> kind, page |-> page, y |-> y, h |-> h]

\* a wrong checkPageBreak: the page is added and the cursor stays
checkPageBreak_NoReset(y, pages, page, heightNeeded) ==
  IF y + heightNeeded > PageHeight - Margin
  THEN [broke |-> TRUE, y |-> y, pages |-> pages + 1, page |-> pages + 1]
  ELSE [broke |-> FALSE, y |-> y, pages |-> pages, page |-> page]

\* checkPageBreak(heightNeeded): doc.addPage() adds a page after the last one
\* and makes it the current page
checkPageBreak(y, pages, page, heightNeeded) ==
  IF y + heightNeeded > PageHeight - Margin
  THEN [broke |-> TRUE, y |-> TopMargin, pages |-> pages + 1, page |-> pages + 1]
  ELSE [broke |-> FALSE, y |-> y, pages |-> pages, page |-> page]

\* the page breaks so far, with the one of this check: the page started, the
\* cursor on it and the number of blocks drawn before it
BreaksWith(cb) ==
  IF cb.broke
  THEN Append(doc.breaks, [page |-> cb.page, y |-> cb.y, before |-> Len(doc.blocks)])
  ELSE doc.breaks

\* a wrong advance: the line of the time stamp wraps when it is long
HeaderAdvance_Wraps(time) == IF time = "11/12/2026, 10:00:00 AM" THEN 20 ELSE 15

\* y += 15 after the line "Generated on ..."
HeaderAdvance(time) == 15

ReportFrame ==
  UNCHANGED <<inputText, selectedImage, selectedPdf, analysisMode, state, history,
              showHistory, currentTheme, storage, mounted, reqs, now, pdf, ext, calls>>

\* lines 28-39: the title and the line of the time stamp
ReportHeader ==
  /\ doc.pc = "header"
  /\ doc' = [doc EXCEPT
       !.pc = "box",
       !.blocks = @ \o <<Block("title", doc.page, doc.y, 0),
                         Block("generated", doc.page, doc.y + 10, 0)>>,
       !.y = doc.y + 10 + HeaderAdvance(doc.time)]
  /\ ReportFrame

\* lines 41-65: the verdict box and the lines in it
ReportVerdictBox ==
  /\ doc.pc = "box"
  /\ doc' = [doc EXCEPT
       !.pc = "summary",
       !.blocks = @ \o <<Block("box", doc.page, doc.y, 35),
                         Block("verdict", doc.page, doc.y + 10, 0),
                         Block("confidence", doc.page, doc.y + 20, 0)>>,
       !.y = doc.y + 45]
  /\ ReportFrame

\* lines 67-79: the heading and the wrapped summary
ReportSummary ==
  /\ doc.pc = "summary"
  /\ doc' = [doc EXCEPT
       !.pc = "section",
       !.blocks = @ \o <<Block("summaryHeading", doc.page, doc.y, 0),
                         Block("summaryText", doc.page, doc.y + 8,
                               doc.data.explainable_summary * 6)>>,
       !.y = doc.y + 8 + (doc.data.explainable_summary * 6) + 10]
  /\ ReportFrame

\* lines 81-87: the heading of the claims
ReportSection ==
  /\ doc.pc = "section"
  /\ LET cb == checkPageBreak(doc.y, doc.pages, doc.page, 20)
     IN doc' = [doc EXCEPT
          !.pc = IF doc.data.claims = <<>> THEN "total" ELSE "claim",
          !.idx = IF doc.data.claims = <<>> THEN 0 ELSE 1,
          !.pages = cb.pages, !.page = cb.page, !.breaks = BreaksWith(cb),
          !.blocks = @ \o <<Block("sectionHeading", cb.page, cb.y, 0)>>,
          !.y = cb.y + 10]
  /\ ReportFrame

\* lines 90-110: the divider, the header and the wrapped text of a claim
ReportClaim ==
  /\ doc.pc = "claim"
  /\ LET cb == checkPageBreak(doc.y, doc.pages, doc.page, 50)
         claim == doc.data.claims[doc.idx]
     IN doc' = [doc EXCEPT
          !.pc = "reasoning",
          !.pages = cb.pages, !.page = cb.page, !.breaks = BreaksWith(cb),
          !.blocks = @ \o <<Block("divider", cb.page, cb.y, 0),
                            Block("claimHeader", cb.page, cb.y + 5, 0),
                            Block("claimText", cb.page, cb.y + 12, claim.claim_text * 6)>>,
          !.y = cb.y + 5 + 7 + (claim.claim_text * 6) + 5]
  /\ ReportFrame

\* where the loop over the claims goes after the claim idx
AfterClaim(idx, claims) == IF idx < Len(claims) THEN "claim" ELSE "total"

\* lines 112-126 and 162: the label and the wrapped reasoning; a claim without
\* evidence ends here
ReportReasoning ==
  /\ doc.pc = "reasoning"
  /\ LET cb == checkPageBreak(doc.y, doc.pages, doc.page, 20)
         claim == doc.data.claims[doc.idx]
         last == claim.evidence = <<>>
     IN doc' = [doc EXCEPT
          !.pc = IF last THEN AfterClaim(doc.idx, doc.data.claims) ELSE "evidenceHeading",
          !.idx = IF last /\ doc.idx < Len(doc.data.claims) THEN @ + 1 ELSE @,
          !.pages = cb.pages, !.page = cb.page, !.breaks = BreaksWith(cb),
          !.blocks = @ \o <<Block("reasoningLabel", cb.page, cb.y, 0),
                            Block("reasoningText", cb.page, cb.y + 5, claim.reasoning * 5)>>,
          !.y = cb.y + 5 + (claim.reasoning * 5) + 8 + (IF last THEN 5 ELSE 0)]
  /\ ReportFrame

\* lines 127-132: the heading of the evidence
ReportEvidenceHeading ==
  /\ doc.pc = "evidenceHeading"
  /\ LET cb == checkPageBreak(doc.y, doc.pages, doc.page, 30)
     IN doc' = [doc EXCEPT
          !.pc = "evidence", !.ev = 1,
          !.pages = cb.pages, !.page = cb.page, !.breaks = BreaksWith(cb),
          !.blocks = @ \o <<Block("evidenceHeading", cb.page, cb.y, 0)>>,
          !.y = cb.y + 6]
  /\ ReportFrame

QuoteCap == 100

\* a quote line that counts the ellipsis into the 100 characters
QuoteLine_Within(quote) ==
  <<"  ", Quote>>
    \o (IF Len(quote) > QuoteCap
        THEN SubSeq(quote, 1, QuoteCap - Len(Ellipsis)) \o Ellipsis ELSE quote)
    \o <<Quote>>

\* `  "${ev.quote.substring(0, 100)}${ev.quote.length > 100 ? '...' : ''}"`
QuoteLine(quote) ==
  <<"  ", Quote>> \o SubSeq(quote, 1, Min(QuoteCap, Len(quote)))
    \o (IF Len(quote) > QuoteCap THEN Ellipsis ELSE <<>>) \o <<Quote>>

\* a line of text drawn on a page at y
Line(kind, page, y, text) == [kind |-> kind, page |-> page, y |-> y, h |-> 0, text |-> text]

\* lines 134-162: one evidence item, its link line and its quote line; after
\* the last one the claim ends
ReportEvidence ==
  /\ doc.pc = "evidence"
  /\ LET cb == checkPageBreak(doc.y, doc.pages, doc.page, 15)
         evidence == doc.data.claims[doc.idx].evidence
         quote == evidence[doc.ev]
         last == doc.ev = Len(evidence)
     IN doc' = [doc EXCEPT
          !.pc = IF last THEN AfterClaim(doc.idx, doc.data.claims) ELSE "evidence",
          !.ev = IF last THEN 0 ELSE @ + 1,
          !.idx = IF last /\ doc.idx < Len(doc.data.claims) THEN @ + 1 ELSE @,
          !.pages = cb.pages, !.page = cb.page, !.breaks = BreaksWith(cb),
          !.blocks = @ \o <<Block("link", cb.page, cb.y, 0)>>
                       \o (IF quote # <<>>
                           THEN <<Line("quote", cb.page, cb.y + 5, QuoteLine(quote))>>
                           ELSE <<>>),
          !.y = cb.y + 5 + (IF quote # <<>> THEN 5 ELSE 0) + (IF last THEN 5 + 5 ELSE 0)]
  /\ ReportFrame

\* line 166: const totalPages = doc.getNumberOfPages()
ReportTotalPages ==
  /\ doc.pc = "total"
  /\ doc' = [doc EXCEPT !.pc = "footer", !.totalPages = doc.pages, !.i = 1]
  /\ ReportFrame

\* a wrong loop test: the last page is left out
FooterLoop_Short(i, totalPages) == i < totalPages

\* i <= totalPages
FooterLoop(i, totalPages) == i <= totalPages

\* lines 167-172: the footer of page i
ReportFooter ==
  /\ doc.pc = "footer"
  /\ FooterLoop(doc.i, doc.totalPages)
  /\ doc' = [doc EXCEPT
       !.page = doc.i,
       !.footers = Append(@, [page |-> doc.i, i |-> doc.i, of |-> doc.totalPages,
                              y |-> PageHeight - 10]),
       !.i = @ + 1]
  /\ ReportFrame

\* line 175: doc.save(...)
ReportSave ==
  /\ doc.pc = "footer"
  /\ ~FooterLoop(doc.i, doc.totalPages)
  /\ doc' = [doc EXCEPT !.pc = "saved"]
  /\ ReportFrame

\* what a run has laid out
Layout(d) == [time |-> d.time, pages |-> d.pages, blocks |-> d.blocks, breaks |-> d.breaks]

\* the PDF button is clicked again on the same result, at another moment
ReportAgain(time) ==
  /\ doc.pc = "saved"
  /\ doc.run = 1
  /\ doc' = ReportStart(doc.data, time, 2, Layout(doc))
  /\ ReportFrame

InitReport ==
  /\ AppInit
  /\ storage = <<>>
  /\ pdf = NoRun
  /\ ext = NoRun
  /\ \E data \in ReportData, time \in Times : doc = ReportStart(data, time, 1, NoLayout)

NextReport ==
  \/ ReportHeader
  \/ ReportVerdictBox
  \/ ReportSummary
  \/ ReportSection
  \/ ReportClaim
  \/ ReportReasoning
  \/ ReportEvidenceHeading
  \/ ReportEvidence
  \/ ReportTotalPages
  \/ ReportFooter
  \/ ReportSave
  \/ \E time \in Times : ReportAgain(time)

SpecReport == InitReport /\ [][NextReport]_vars

\* most evidence items of the claim whose quotes are laid out
MaxQuotes == 2

\* a quote of n characters, the first 100 of them a and the others b
QuoteOf(n) == [i \in 1..n |-> IF i <= QuoteCap THEN "a" ELSE "b"]

\* no quote, and quotes of 1, 100, 101 and 130 characters
Quotes == {QuoteOf(n) : n \in {0, 1, QuoteCap, QuoteCap + 1, QuoteCap + 30}}

QuoteLists == UNION {[1..n -> Quotes] : n \in 0..MaxQuotes}

\* The report of a result with one claim, for every list of quotes.
InitQuote ==
  /\ AppInit
  /\ storage = <<>>
  /\ pdf = NoRun
  /\ ext = NoRun
  /\ \E evidence \in QuoteLists, time \in Times :
       doc = ReportStart([explainable_summary |-> 1,
                          claims |-> << [claim_text |-> 2, reasoning |-> 1,
                                         evidence |-> evidence] >>],
                         time, 1, NoLayout)

SpecQuote == InitQuote /\ [][NextReport]_vars

\* ------------------------------------------------------------------------
\* analyzeContent: the request it sends (src/unnamed/part_000, lines 28-74)
\* ------------------------------------------------------------------------
\* handleSubmit dispatches explored per behaviour when the calls are recorded
MaxCallSubmits == 1

DeepPrefix ==
  <<"CONDUCT A DEEP DIVE ANALYSIS. Search extensively for historical context, scientific consensus, and multiple viewpoints. Be extremely rigorous with evidence selection. ">>

\* const promptPrefix
PromptPrefix(mode) == IF mode = "deep" THEN DeepPrefix ELSE <<>>

StartsWith(s, p) == Len(s) >= Len(p) /\ SubSeq(s, 1, Len(p)) = p

\* a test that searches for a URL anywhere in the text
IsUrl_Search(s) ==
  \E i \in DOMAIN s, scheme \in {<<"h", "t", "t", "p">>, <<"h", "t", "t", "p", "s">>} :
    LET head == scheme \o <<":", "/", "/">>
        rest == SubSeq(s, i, Len(s))
    IN StartsWith(rest, head) /\ Len(rest) > Len(head)
         /\ rest[Len(head) + 1] \notin {" ", Quote}

\* /^(http|https):\/\/[^ "]+$/.test(s): no flag, so ^ and $ are the two ends
\* of s and a line break is one more character that is not ' ' or '"'
IsUrl(s) ==
  \E scheme \in {<<"h", "t", "t", "p">>, <<"h", "t", "t", "p", "s">>} :
    LET head == scheme \o <<":", "/", "/">>
    IN /\ StartsWith(s, head)
       /\ Len(s) > Len(head)
       /\ \A i \in (Len(head) + 1)..Len(s) : s[i] \notin {" ", Quote}

UrlDirective == <<"Analyze the content at this URL: ">>

UrlDirectiveEnd == <<". Extract claims and verify them.">>

ImageDirective == <<"Analyze this image. ">>

\* parts that put the text before the image and the context in a part of its own
Parts_TextFirst(text, imageBase64, mode) ==
  IF imageBase64 # <<>>
  THEN << [text |-> PromptPrefix(mode) \o ImageDirective] >>
         \o (IF text # <<>> THEN << [text |-> <<"Context: ">> \o text] >> ELSE <<>>)
         \o << [inlineData |-> [data |-> imageBase64, mimeType |-> "image/jpeg"]] >>
  ELSE << [text |-> PromptPrefix(mode) \o text] >>

\* const parts, once lines 39-57 have run; an absent imageBase64 and an empty
\* one are both <<>>
Parts(text, imageBase64, mode) ==
  IF imageBase64 # <<>>
  THEN << [inlineData |-> [data |-> imageBase64, mimeType |-> "image/jpeg"]],
          [text |-> PromptPrefix(mode) \o ImageDirective
                      \o (IF text # <<>> THEN <<"Context: ">> \o text ELSE <<>>)] >>
  ELSE IF IsUrl(Trim(text))
    THEN << [text |-> PromptPrefix(mode) \o UrlDirective \o text \o UrlDirectiveEnd] >>
    ELSE << [text |-> PromptPrefix(mode) \o text] >>

\* const modelId
ModelId(mode) == IF mode = "deep" THEN "gemini-3-pro-preview" ELSE "gemini-2.5-flash"

Called(r) == \E c \in DOMAIN calls : calls[c].of = r

\* a call that is made again while the request waits
AnalyzeCall_Again(r) ==
  /\ r \in DOMAIN reqs
  /\ reqs[r].pc = "analyze"
  /\ calls' = Append(calls,
       [of |-> r,
        text |-> reqs[r].finalInputText,
        model |-> ModelId(reqs[r].analysisMode),
        parts |-> Parts(reqs[r].finalInputText, reqs[r].base64Image,
                        reqs[r].analysisMode)])
  /\ UNCHANGED <<inputText, selectedImage, selectedPdf, analysisMode, state, history,
                 showHistory, currentTheme, storage, mounted, reqs, now, pdf, ext, doc>>

\* analyzeContent(finalInputText, base64Image, analysisMode) of request r, up
\* to its await of ai.models.generateContent
AnalyzeCall(r) ==
  /\ r \in DOMAIN reqs
  /\ reqs[r].pc = "analyze"
  /\ ~Called(r)
  /\ calls' = Append(calls,
       [of |-> r,
        text |-> reqs[r].finalInputText,
        model |-> ModelId(reqs[r].analysisMode),
        parts |-> Parts(reqs[r].finalInputText, reqs[r].base64Image,
                        reqs[r].analysisMode)])
  /\ UNCHANGED <<inputText, selectedImage, selectedPdf, analysisMode, state, history,
                 showHistory, currentTheme, storage, mounted, reqs, now, pdf, ext, doc>>

\* getAiClient() throws, before any call
ClientReject(r) ==
  /\ ~Called(r)
  /\ AnalyzeReject(r, MapError(
       <<"API Key is missing", ". Please ensure process.env.API_KEY is configured.">>))

\* the call of request r has settled and analyzeContent resolves
CallResolve(r) ==
  /\ Called(r)
  /\ \E response \in Responses : AnalyzeResolve(r, response, now + 1)

\* the call of request r has settled and analyzeContent rejects
CallReject(r) ==
  /\ Called(r)
  /\ \E message \in AnalyzeErrors : AnalyzeReject(r, message)

\* a text longer than the label of a history entry
LongText == [i \in 1..(QueryCap + 1) |-> "x"]

CallTexts == {<<>>, <<" ">>, <<"q">>, LongText}

\* images of three, one and no bytes
CallImages ==
  {[name |-> <<"i">>, type |-> "image/png", bytes |-> <<137, 80, 78>>],
   [name |-> <<"w">>, type |-> "image/webp", bytes |-> <<82>>],
   [name |-> <<"e">>, type |-> "image/png", bytes |-> <<>>]}

SubmitCall == Len(reqs) < MaxCallSubmits /\ handleSubmit

CallStep(r) ==
  \/ \E pdfText \in PdfTexts : PdfResolve(r, pdfText)
  \/ \E message \in PdfErrors : PdfReject(r, message)
  \/ ImageResolve(r)
  \/ ImageReject(r)
  \/ AnalyzeCall(r)
  \/ ClientReject(r)
  \/ CallResolve(r)
  \/ CallReject(r)

InitCall ==
  /\ AppInit
  /\ doc = NoRun
  /\ storage = <<>>
  /\ pdf = NoRun
  /\ ext = NoRun

NextCall ==
  \/ LoadHistory
  \/ \E t \in CallTexts : setInputText(t)
  \/ \E file \in CallImages : handleImageSelect(file)
  \/ \E file \in PdfFiles : handlePdfSelect(file)
  \/ removeMedia
  \/ \E m \in Modes : setAnalysisMode(m)
  \/ LogoClick
  \/ DismissError
  \/ NewSearch
  \/ SubmitCall
  \/ \E r \in 1..MaxCallSubmits : CallStep(r)

SpecCall == InitCall /\ [][NextCall]_vars

\* longest run of white space before and after a text submitted
MaxPad == 1

Pads == UNION {[1..n -> {" ", "\n"}] : n \in 0..MaxPad}

HttpA == <<"h", "t", "t", "p", ":", "/", "/", "a">>

\* Texts with and without a URL: a word, two bare URLs, a scheme with nothing
\* after it, URLs with a space, a double quote and a line break inside, a URL
\* after a word, and two schemes the pattern does not name.
PromptCores ==
  {<<"q">>,
   HttpA,
   <<"h", "t", "t", "p", "s", ":", "/", "/", "a">>,
   <<"h", "t", "t", "p", ":", "/", "/">>,
   HttpA \o <<" ", "b">>,
   HttpA \o <<Quote, "b">>,
   HttpA \o <<"\n", "b">>,
   <<"s", "e", "e", " ">> \o HttpA,
   <<"f", "t", "p", ":", "/", "/", "a">>,
   <<"H", "T", "T", "P", ":", "/", "/", "a">>}

PromptTexts == {before \o core \o after : before \in Pads, core \in PromptCores, after \in Pads}

SubmitPrompt == Len(reqs) < 1 /\ handleSubmit

\* the form is filled in before the submission
FillPrompt ==
  /\ reqs = <<>>
  /\ \/ \E t \in PromptTexts : setInputText(t)
     \/ \E file \in CallImages : handleImageSelect(file)
     \/ removeMedia
     \/ \E m \in Modes : setAnalysisMode(m)

\* One submission of a text, with or without an image, its call and the end
\* of the request.
NextPrompt ==
  \/ LoadHistory
  \/ FillPrompt
  \/ SubmitPrompt
  \/ ImageResolve(1)
  \/ AnalyzeCall(1)
  \/ CallResolve(1)
  \/ CallReject(1)

SpecPrompt == InitCall /\ [][NextPrompt]_vars

\* The App with each call of the service as a step of its own.
NextRetry ==
  \/ LoadHistory
  \/ FormAction
  \/ HeaderAction
  \/ Submit
  \/ \E r \in 1..MaxSubmits : CallStep(r)

SpecRetry == InitCall /\ [][NextRetry]_vars

\* ------------------------------------------------------------------------
\* Steps of a request, as seen in a pair of states
\* ------------------------------------------------------------------------
\* request r makes its terminal setState call in this step
TerminalStep(r) == reqs[r].pc # "done" /\ reqs'[r].pc = "done"

CompletionStep(r) == TerminalStep(r) /\ reqs'[r].outcome = "complete"

FailureStep(r) == TerminalStep(r) /\ reqs'[r].outcome = "error"

DispatchStep == Len(reqs') = Len(reqs) + 1

\* dates never increase from the head of the list to its end
NewestFirst(h) == \A i, j \in DOMAIN h : i < j => h[i].date >= h[j].date

\* ------------------------------------------------------------------------
\* Claims
\* ------------------------------------------------------------------------

\* C1 (as stated): at most one analysis request is in flight at any time,
\* whatever the user does between a dispatch and its completion or failure.
C1_Original == Cardinality(InFlight) <= 1

\* C2 (as stated): every step that makes status 'complete' or 'error' starts
\* from status 'analyzing', and status 'analyzing' is entered only by a
\* submission.
C2_Original ==
  [][/\ \A r \in DOMAIN reqs : TerminalStep(r) => state.status = "analyzing"
     /\ (state'.status = "analyzing" /\ state.status # "analyzing") => DispatchStep
    ]_vars

\* C3: when every awaited promise settles, every request that set status
\* 'analyzing' eventually makes exactly one terminal update, 'complete' with
\* the result or 'error' with a message, and never a second one.
C3_RunsToCompletion ==
  /\ \A r \in 1..MaxSubmits :
       [](r \in DOMAIN reqs =>
            <>(/\ r \in DOMAIN reqs
               /\ reqs[r].pc = "done"
               /\ reqs[r].updates = 1
               /\ reqs[r].outcome \in {"complete", "error"}))
  /\ [](\A r \in DOMAIN reqs :
          /\ reqs[r].updates <= 1
          /\ (reqs[r].pc # "done" => reqs[r].updates = 0))

\* C3 witness: two requests have returned, one failed and one completed,
\* each after one terminal update.
C3_Witness ==
  \E r1, r2 \in DOMAIN reqs :
    /\ reqs[r1].pc = "done" /\ reqs[r1].outcome = "error" /\ reqs[r1].updates = 1
    /\ reqs[r2].pc = "done" /\ reqs[r2].outcome = "complete" /\ reqs[r2].updates = 1
    /\ state.status = "complete"

\* C4 (as stated): on every successful completion the list written to React
\* state and to localStorage is the new entry prepended to the history current
\* at the moment of the write, truncated to 10.
C4_Original ==
  [][\A r \in DOMAIN reqs :
       CompletionStep(r) =>
         /\ history' = Slice(<<Head(history')>> \o history, 0, HistoryCap)
         /\ storage' = history'
    ]_vars

\* C5 (as stated): starting from an empty history, the history always holds at
\* most 10 entries, newest first, and an entry added to a full history removes
\* the oldest one.
C5_Original ==
  /\ [](Len(history) <= HistoryCap /\ NewestFirst(history))
  /\ [][\A r \in DOMAIN reqs :
          (CompletionStep(r) /\ Len(history) = HistoryCap) =>
             Tail(history') = SubSeq(history, 1, HistoryCap - 1)
       ]_vars

\* C6: an entry is appended only when an analysis completes successfully: a
\* failing request leaves history and localStorage as they are, a step that is
\* no successful completion brings no entry into either list that was in
\* neither, and a successful completion carries the entries of the handler's
\* history over unchanged behind the new one.
C6_AppendOnlyOnSuccess ==
  [][/\ \A r \in DOMAIN reqs :
          FailureStep(r) => (history' = history /\ storage' = storage)
     /\ (\A r \in DOMAIN reqs : ~CompletionStep(r)) =>
          /\ storage' = storage
          /\ Range(history') \subseteq Range(history) \cup Range(storage)
     /\ \A r \in DOMAIN reqs :
          CompletionStep(r) =>
             /\ Len(history') = Min(Len(reqs[r].history) + 1, HistoryCap)
             /\ Tail(history') = SubSeq(reqs[r].history, 1, Len(history') - 1)
             /\ storage' = history'
    ]_vars

\* C6 witness: a request has failed after another one completed, and the
\* entry of the completed one is in both lists.
C6_Witness ==
  /\ state.status = "error"
  /\ \E r1, r2 \in DOMAIN reqs :
       /\ r1 < r2
       /\ reqs[r1].outcome = "complete"
       /\ reqs[r2].outcome = "error"
  /\ history # <<>>
  /\ storage = history

\* C7 (as stated): a PDF whose extracted page text is empty after trimming
\* never makes extractTextFromPdf return a string.
C7_Original ==
  pdf.pc = "resolved" => \E k \in DOMAIN pdf.texts : Trim(pdf.texts[k]) # <<>>

\* the page markers of a text, in order
RECURSIVE MarkersIn(_, _)
MarkersIn(text, limit) ==
  IF text = <<>> THEN <<>>
  ELSE IF \E i \in 1..limit : Head(text) = PageMarker(i)
       THEN <<Head(text)>> \o MarkersIn(Tail(text), limit)
       ELSE MarkersIn(Tail(text), limit)

\* C8: once the loop of extractTextFromPdf is over, the pages read are
\* 1..min(n,10) in increasing order, the text holds the marker of each page
\* read once and in order and no marker of a later page, and it ends with the
\* truncation notice exactly when n > 10.
C8_PagesRead ==
  pdf.pc \in {"resolved", "rejected"} /\ pdf.i > pdf.maxPages =>
    LET m == Min(pdf.numPages, PageLimit)
    IN /\ pdf.read = [k \in 1..m |-> k]
       /\ MarkersIn(pdf.fullText, MaxPages + 1) = [k \in 1..m |-> PageMarker(k)]
       /\ (pdf.numPages > PageLimit <=>
             /\ pdf.fullText # <<>>
             /\ pdf.fullText[Len(pdf.fullText)] = TruncationNotice(PageLimit))

\* C8 witness: a document of more than 10 pages has been extracted.
C8_Witness ==
  /\ pdf.pc = "resolved"
  /\ pdf.numPages > PageLimit
  /\ Len(pdf.read) = PageLimit

\* ------------------------------------------------------------------------
\* Claims about the extraction step
\* ------------------------------------------------------------------------
\* the body is one JSON object with a list `claims` and a non-empty string
\* `overall_verdict`
IsResultObject(body) ==
  LET p == JsonParse(body)
  IN /\ p.ok
     /\ p.v.t = "obj"
     /\ Get(p.v, <<"claims">>).t = "arr"
     /\ Get(p.v, <<"overall_verdict">>).t = "str"
     /\ Get(p.v, <<"overall_verdict">>).s # <<>>

\* the step returned exactly the object written in the body
ReturnedBody ==
  /\ ext.pc = "resolved"
  /\ ext.jsonString = ext.body
  /\ ext.value = JsonParse(ext.body).v

RECURSIVE Balanced(_, _, _, _)
Balanced(text, i, depth, quoted) ==
  IF i > Len(text) THEN depth = 0
  ELSE IF text[i] = Quote THEN Balanced(text, i + 1, depth, ~quoted)
  ELSE IF quoted THEN Balanced(text, i + 1, depth, quoted)
  ELSE IF text[i] = "{" THEN Balanced(text, i + 1, depth + 1, quoted)
  ELSE IF text[i] = "}" THEN depth > 0 /\ Balanced(text, i + 1, depth - 1, quoted)
  ELSE Balanced(text, i + 1, depth, quoted)

NoOpen(text) == \A i \in DOMAIN text : text[i] # "{"

NoClose(text) == \A i \in DOMAIN text : text[i] # "}"

\* every '}' of the text is before every '{'
CloseBeforeOpen(text) ==
  \A i, j \in DOMAIN text : (text[i] = "{" /\ text[j] = "}") => j < i

\* the text from its first '{' to its last '}', when they are in this order
BraceSpan(text) ==
  LET opens == {i \in DOMAIN text : text[i] = "{"}
      closes == {j \in DOMAIN text : text[j] = "}"}
  IN SubSeq(text, CHOOSE i \in opens : \A k \in opens : i <= k,
                  CHOOSE j \in closes : \A k \in closes : k <= j)

\* the step ended in a handled failure: an Error with a message, no result
HandledFailure ==
  /\ ext.pc = "rejected"
  /\ ext.message # <<>>
  /\ ext.value = Undefined

\* C10 as stated: a text with no '{', no '}' or unbalanced braces ends in a
\* handled failure.
C10_Original ==
  ( /\ ext.pc # "response"
    /\ \/ NoOpen(ext.resultText)
       \/ NoClose(ext.resultText)
       \/ ~Balanced(ext.resultText, 1, 0, FALSE) )
  => HandledFailure

\* C10, amended: a text with no '{', no '}', its last '}' before its first
\* '{', or unbalanced braces between its first '{' and its last '}' ends in a
\* handled failure.
C10_HandledFailure ==
  ( /\ ext.pc # "response"
    /\ \/ NoOpen(ext.resultText)
       \/ NoClose(ext.resultText)
       \/ CloseBeforeOpen(ext.resultText)
       \/ ~Balanced(BraceSpan(ext.resultText), 1, 0, FALSE) )
  => HandledFailure

\* C10 witness: the text }null{, whose '}' is before its only '{', has been
\* rejected after JSON.parse returned null.
C10_Witness ==
  /\ HandledFailure
  /\ ext.resultText = <<"}", "null", "{">>
  /\ ext.thrown = "type"

\* ------------------------------------------------------------------------
\* Claims about validation and the errors of analyzeContent
\* ------------------------------------------------------------------------
\* the object has a member of this name
Has(value, key) == value.t = "obj" /\ \E i \in DOMAIN value.m : value.m[i].k = key

\* null, false, 0 or the empty string
Falsy(value) ==
  \/ value.t = "null"
  \/ value.t = "str" /\ value.s = <<>>
  \/ value.t = "bool" /\ value.s = <<"false">>
  \/ value.t = "num" /\ value.s = <<"0">>

\* the promise of analyzeContent settles in this step, its candidate JSON
\* having parsed
ReturnOfParsed ==
  /\ Len(reqs) >= 1
  /\ TerminalStep(1)
  /\ JsonParse(ext.jsonString).ok

Rejected == ext.pc = "rejected" /\ state'.status = "error" /\ state'.data = NoData

Accepted == ext.pc = "resolved" /\ state'.status = "complete" /\ state'.data.of = 1

\* C11 as stated: a response whose candidate parses is rejected, the App
\* ending in status 'error', when `claims` or `overall_verdict` is absent, and
\* accepted when both are present.
C11_Original ==
  [][ReturnOfParsed =>
       LET parsed == JsonParse(ext.jsonString).v
       IN IF ~Has(parsed, <<"claims">>) \/ ~Has(parsed, <<"overall_verdict">>)
          THEN Rejected ELSE Accepted]_vars

\* C11, amended: a response whose candidate parses is rejected, the App ending
\* in status 'error', when `claims` or `overall_verdict` is absent, and
\* accepted when both are present and neither is null, false, 0 or the empty
\* string (an empty claims list is accepted).
C11_Validation ==
  [][ReturnOfParsed =>
       LET parsed == JsonParse(ext.jsonString).v
           present == Has(parsed, <<"claims">>) /\ Has(parsed, <<"overall_verdict">>)
       IN /\ ~present => Rejected
          /\ ( /\ present
               /\ ~Falsy(Get(parsed, <<"claims">>))
               /\ ~Falsy(Get(parsed, <<"overall_verdict">>)) ) => Accepted]_vars

\* C11 witness: the object with an empty claims list has been accepted and the
\* App shows it.
C11_Witness ==
  /\ Len(reqs) >= 1
  /\ reqs[1].pc = "done"
  /\ ext.pc = "resolved"
  /\ ext.body = JsonEmptyClaims
  /\ Get(ext.value, <<"claims">>).m = <<>>
  /\ state.status = "complete"

\* one response text for each failure of the extraction: (a) empty, (b) no
\* delimiters, (c) not parsable, (d) required fields missing
KindSamples == {<<>>, <<"a">>, JsonBroken, JsonNoVerdict}

\* C12 as stated: the failures (a) empty response, (b) no JSON delimiters,
\* (c) JSON parse failure and (d) missing required fields are pairwise
\* distinguishable by the message of the error the caller receives: no
\* response failing in another of these ways is rejected with the same message.
C12_Original ==
  (ext.pc = "rejected" /\ ext.thrown \in {"empty", "nojson", "syntax", "fields"})
  => \A text \in KindSamples :
       Settle(text).thrown # ext.thrown => Settle(text).message # ext.message

\* the fixed messages analyzeContent has for the errors of the client and of
\* the service
CategoryMessages ==
  {<<"An unexpected error occurred during analysis.">>,
   <<"API Key configuration error. Please check your environment.">>,
   <<"Request failed (400). Please try different content.">>,
   <<"Permission denied. Please check API key and enabled services.">>,
   <<"Model or resource not found.">>,
   <<"Too many requests. Please wait a moment.">>,
   <<"Content blocked due to safety settings.">>}

\* the request ended in the error of the client or of the service, which the
\* App shows
ServiceErrorShown ==
  /\ Len(reqs) >= 1
  /\ reqs[1].pc = "done"
  /\ ext.pc = "rejected"
  /\ ext.thrown = "service"
  /\ state.status = "error"

\* C13 as stated: for every error thrown by the client or the generation
\* service, the text shown to the user (AnalysisState.error) is one of the
\* fixed category messages, never the raw message.
C13_Original == ServiceErrorShown => state.error \in CategoryMessages

\* the raw message carries this marker
Carries(raw, marker) == \E i \in DOMAIN raw : raw[i] = marker

\* C14 as stated: every service error whose message carries 429 is reported
\* as the rate-limit message, every one carrying 403 as the permission
\* message and every one carrying SAFETY as the safety-block message, whatever
\* else the message contains.
C14_Original ==
  (ext.pc = "rejected" /\ ext.thrown = "service")
  => /\ Carries(ext.raw, "429")
          => ext.message = <<"Too many requests. Please wait a moment.">>
     /\ Carries(ext.raw, "403")
          => ext.message = <<"Permission denied. Please check API key and enabled services.">>
     /\ Carries(ext.raw, "SAFETY")
          => ext.message = <<"Content blocked due to safety settings.">>

\* every claim of the result whose verdict is not 'unknown' has evidence
ClaimInvariant(result) ==
  LET claims == Get(result, <<"claims">>)
  IN claims.t = "arr" =>
       \A i \in DOMAIN claims.m :
         Get(claims.m[i].v, <<"verdict">>).s # <<"unknown">>
           => ( /\ Get(claims.m[i].v, <<"evidence">>).t = "arr"
                /\ Get(claims.m[i].v, <<"evidence">>).m # <<>> )

\* C15 as stated: every result the pipeline accepts and hands to rendering
\* (status 'complete') satisfies the claim invariant: each claim whose verdict
\* is not 'unknown' has at least one evidence item.
C15_Original ==
  (state.status = "complete" /\ state.data.of = 1 /\ ext.pc = "resolved")
  => ClaimInvariant(ext.value)

\* C16: for every result R that the extraction accepted, the extraction of
\* the pretty-printed JSON of R (the text of the JSON download) accepts it and
\* returns a result equal to R.
C16_ExportRoundTrip ==
  (ext.source # Undefined /\ ext.pc # "response")
  => (ext.pc = "resolved" /\ ext.value = ext.source)

\* C16 witness: the export of a result with a claim, its evidence and a
\* number, printed over several lines, has been accepted again.
C16_Witness ==
  /\ ext.source = JsonParse(JsonWithEvidence).v
  /\ ext.pc = "resolved"
  /\ ext.value = ext.source
  /\ \E i \in DOMAIN ext.resultText : ext.resultText[i] = "\n"

\* ------------------------------------------------------------------------
\* Claims about the layout of the PDF report
\* ------------------------------------------------------------------------
\* C17 as stated: no block, the wrapped summary, claim text and reasoning of
\* any number of lines included, extends below pageHeight - margin: a block
\* that would is moved to a new page before it is written.
C17_Original ==
  \A k \in DOMAIN doc.blocks :
    doc.blocks[k].y + doc.blocks[k].h <= PageHeight - Margin

\* C18: every block of the report starts at a y of at most pageHeight -
\* margin, on a page that exists, and after every new page the cursor is the
\* top margin 20, where the next block starts.
C18_StartsOnPage ==
  /\ \A k \in DOMAIN doc.blocks :
       /\ doc.blocks[k].y <= PageHeight - Margin
       /\ doc.blocks[k].page \in 1..doc.pages
  /\ \A b \in DOMAIN doc.breaks :
       /\ doc.breaks[b].y = 20
       /\ doc.breaks[b].before < Len(doc.blocks)
            => /\ doc.blocks[doc.breaks[b].before + 1].y = 20
               /\ doc.blocks[doc.breaks[b].before + 1].page = doc.breaks[b].page

\* C18 witness: a report is finished in which a page was started before the
\* heading of the claims, after a summary that ran off the first page, and
\* another before an evidence link line.
C18_Witness ==
  /\ doc.pc = "saved"
  /\ \E b \in DOMAIN doc.breaks :
       doc.blocks[doc.breaks[b].before + 1].kind = "sectionHeading"
  /\ \E b \in DOMAIN doc.breaks : doc.blocks[doc.breaks[b].before + 1].kind = "link"

\* C19: once the total N has been read no page is added, and after the footer
\* pass every page i in 1..N has exactly one footer, 'Page i of N', N being
\* the final number of pages.
C19_Footers ==
  /\ doc.pc \in {"footer", "saved"} => doc.totalPages = doc.pages
  /\ doc.pc = "saved"
       => /\ Len(doc.footers) = doc.pages
          /\ \A i \in 1..doc.pages :
               /\ doc.footers[i].page = i
               /\ doc.footers[i].i = i
               /\ doc.footers[i].of = doc.pages

\* C19 witness: a report of three pages or more has its footers.
C19_Witness == doc.pc = "saved" /\ doc.pages >= 3 /\ Len(doc.footers) = doc.pages

\* C20: a second run on the same result, whatever the time read for the
\* header, has the same number of pages, the same page breaks and the same
\* page and y for every block as the first.
C20_Deterministic ==
  (doc.pc = "saved" /\ doc.run = 2)
  => /\ doc.pages = doc.prior.pages
     /\ doc.breaks = doc.prior.breaks
     /\ doc.blocks = doc.prior.blocks

\* C20 witness: two runs at different times have finished a report of several
\* pages.
C20_Witness ==
  /\ doc.pc = "saved"
  /\ doc.run = 2
  /\ doc.time # doc.prior.time
  /\ doc.pages >= 2
  /\ doc.breaks # <<>>

\* ------------------------------------------------------------------------
\* Claims on the request sent to the generation service
\* ------------------------------------------------------------------------
IsImagePart(part) == "inlineData" \in DOMAIN part

IsTextPart(part) == "text" \in DOMAIN part

\* the request whose call c is, while its handleSubmit still waits for it
Waiting(c) == reqs[calls[c].of].pc = "analyze"

\* C21 as stated: every call of analyzeContent carries non-empty text or an
\* image payload, so that a submission with nothing in it never reaches the
\* service.
C21_Original ==
  \A c \in DOMAIN calls :
    calls[c].text # <<>> \/ \E i \in DOMAIN calls[c].parts : IsImagePart(calls[c].parts[i])

\* C22 as stated: the query label of every history entry has at most 60
\* characters, the ellipsis included.
C22_Original == \A i \in DOMAIN history : Len(history[i].query) <= QueryCap

Base64Value(digit) == CHOOSE n \in 0..63 : Base64Digit(n) = digit

\* the bytes a base64 text stands for
RECURSIVE Base64Decode(_)
Base64Decode(digits) ==
  IF Len(digits) < 4 THEN <<>>
  ELSE LET a == Base64Value(digits[1])
           b == Base64Value(digits[2])
           rest == Base64Decode(SubSeq(digits, 5, Len(digits)))
       IN IF digits[3] = "=" THEN <<a * 4 + b \div 16>>
          ELSE LET c == Base64Value(digits[3])
               IN IF digits[4] = "="
                  THEN <<a * 4 + b \div 16, (b % 16) * 16 + c \div 4>>
                  ELSE <<a * 4 + b \div 16, (b % 16) * 16 + c \div 4,
                         (c % 4) * 64 + Base64Value(digits[4])>> \o rest

\* C23 as stated: the inline media part of a call is tagged with the MIME
\* type of the image file that was selected and carries that file's bytes.
C23_Original ==
  \A c \in DOMAIN calls :
    Waiting(c) =>
      \A i \in DOMAIN calls[c].parts :
        IsImagePart(calls[c].parts[i]) =>
          /\ calls[c].parts[i].inlineData.mimeType = reqs[calls[c].of].selectedImage.type
          /\ Base64Decode(calls[c].parts[i].inlineData.data)
               = reqs[calls[c].of].selectedImage.bytes

\* C24: the parts of a call made with an image payload are the image part
\* followed by one text part, and the parts of a call made with non-empty text
\* and no image payload are one text part.
C24_PartsShape ==
  \A c \in DOMAIN calls :
    Waiting(c) =>
      LET parts == calls[c].parts
          rq == reqs[calls[c].of]
      IN IF rq.base64Image # <<>>
         THEN /\ Len(parts) = 2
              /\ IsImagePart(parts[1]) /\ ~IsTextPart(parts[1])
              /\ parts[1].inlineData.data = rq.base64Image
              /\ IsTextPart(parts[2]) /\ ~IsImagePart(parts[2])
         ELSE rq.finalInputText # <<>> =>
                /\ Len(parts) = 1
                /\ IsTextPart(parts[1]) /\ ~IsImagePart(parts[1])

\* C24 witness: a call has been made with the payload of an image and the
\* text q as its context.
C24_Witness ==
  \E c \in DOMAIN calls :
    /\ Waiting(c)
    /\ reqs[calls[c].of].base64Image # <<>>
    /\ reqs[calls[c].of].finalInputText = <<"q">>
    /\ Len(calls[c].parts) = 2

\* the calls made for request r
CallsOf(r, log) == {c \in DOMAIN log : log[c].of = r}

\* C26: every call of the service belongs to a request of its own that a
\* submission dispatched and that waits for it, so that the calls never
\* outnumber the submissions, and every failure of a request leaves status
\* 'error', in which the input form and its submit button are shown.
C26_NoRetry ==
  [][/\ Len(calls') <= Len(reqs')
     /\ \A r \in DOMAIN reqs' : Cardinality(CallsOf(r, calls')) <= 1
     /\ calls' # calls =>
          /\ Len(calls') = Len(calls) + 1
          /\ calls'[Len(calls')].of \in DOMAIN reqs
          /\ reqs[calls'[Len(calls')].of].pc = "analyze"
     /\ \A r \in DOMAIN reqs :
          FailureStep(r) => state'.status = "error" /\ FormShown']_vars

\* C26 witness: a request has failed after its call, a second submission was
\* accepted and its call has been made.
C26_Witness ==
  /\ Len(reqs) = 2
  /\ reqs[1].pc = "done" /\ reqs[1].outcome = "error"
  /\ Len(calls) = 2
  /\ calls[1].of = 1 /\ calls[2].of = 2

PdfFailurePrefix == <<"Failed to read PDF file: ">>

\* request r, waiting for extractTextFromPdf, returns in this step
PdfFailureStep(r) == reqs[r].pc = "pdf" /\ reqs'[r].pc = "done"

MatchesUrlPattern(s) ==
  /\ Len(s) >= 8
  /\ SubSeq(s, 1, 4) = <<"h", "t", "t", "p">>
  /\ LET k == IF s[5] = "s" THEN 6 ELSE 5
     IN /\ Len(s) >= k + 3
        /\ SubSeq(s, k, k + 2) = <<":", "/", "/">>
        /\ \A i \in (k + 3)..Len(s) : s[i] # " " /\ s[i] # Quote

\* the text part of a call made without an image payload is built as the
\* claim says, recognized(text) telling whether the text counts as a URL
TextPartAsClaimed(c, recognized) ==
  LET rq == reqs[calls[c].of]
      text == rq.finalInputText
      sent == calls[c].parts[1].text
      deep == rq.analysisMode = "deep"
      body == IF deep THEN SubSeq(sent, Len(DeepPrefix) + 1, Len(sent)) ELSE sent
  IN /\ deep => StartsWith(sent, DeepPrefix)
     /\ ~deep => ~StartsWith(sent, DeepPrefix)
     /\ IF recognized
        THEN body = UrlDirective \o text \o UrlDirectiveEnd
        ELSE body = text

NoPayload(c) == Waiting(c) /\ reqs[calls[c].of].base64Image = <<>>

\* C25 as stated: with no image payload the text part uses the URL directive
\* if and only if the submitted text as a whole matches the pattern, and
\* carries the deep-analysis prefix if and only if mode is deep.
C25_Original ==
  \A c \in DOMAIN calls :
    NoPayload(c) =>
      TextPartAsClaimed(c, MatchesUrlPattern(reqs[calls[c].of].finalInputText))

\* C25, amended: with no image payload the text part uses the URL directive
\* if and only if the submitted text, with the white space at its two ends
\* removed, matches the pattern as a whole, and carries the deep-analysis
\* prefix if and only if mode is deep; any other text is sent as it is.
C25_UrlDirective ==
  \A c \in DOMAIN calls :
    NoPayload(c) =>
      TextPartAsClaimed(c, MatchesUrlPattern(Trim(reqs[calls[c].of].finalInputText)))

\* C25 witness: in deep mode a URL with a space before it has been sent with
\* the URL directive, and so the call is waiting.
C25_Witness ==
  \E c \in DOMAIN calls :
    /\ NoPayload(c)
    /\ reqs[calls[c].of].analysisMode = "deep"
    /\ reqs[calls[c].of].finalInputText = <<" ">> \o HttpA
    /\ calls[c].parts[1].text = DeepPrefix \o UrlDirective \o <<" ">> \o HttpA \o UrlDirectiveEnd

\* ------------------------------------------------------------------------
\* Claims on the quotes of the report
\* ------------------------------------------------------------------------
\* the quote of the evidence item that the next step of the loop lays out
QuoteAtHand == doc.data.claims[doc.idx].evidence[doc.ev]

\* what the step has drawn
Drawn == SubSeq(doc'.blocks, Len(doc.blocks) + 1, Len(doc'.blocks))

\* the cursor after an evidence item whose last line is at y: the next line,
\* and after the last item of a claim the two gaps that end it
AfterItem(y) ==
  y + 5 + (IF doc.ev = Len(doc.data.claims[doc.idx].evidence) THEN 10 ELSE 0)

\* C27: the step that lays out an evidence item draws, below the link line, the
\* whole quote between double quotes when it has at most 100 characters, its
\* first 100 characters and then '...' when it has more, and nothing when the
\* quote is empty, in which case the cursor is where the link line alone
\* leaves it.
C27_QuoteLine ==
  [][doc.pc = "evidence" /\ doc' # doc =>
       /\ Drawn[1].kind = "link"
       /\ IF QuoteAtHand = <<>>
          THEN /\ Len(Drawn) = 1
               /\ doc'.y = AfterItem(Drawn[1].y)
          ELSE /\ Len(Drawn) = 2
               /\ Drawn[2].kind = "quote"
               /\ Drawn[2].y = Drawn[1].y + 5
               /\ doc'.y = AfterItem(Drawn[2].y)
               /\ Drawn[2].text =
                    IF Len(QuoteAtHand) <= 100
                    THEN <<"  ", Quote>> \o QuoteAtHand \o <<Quote>>
                    ELSE <<"  ", Quote>> \o SubSeq(QuoteAtHand, 1, 100)
                           \o <<".", ".", ".", Quote>>]_vars

QuoteLinesDrawn == {i \in DOMAIN doc.blocks : doc.blocks[i].kind = "quote"}

\* C27 witness: a report is finished whose claim has a quote of 100 characters
\* and one of 101, drawn as lines of 103 and 106 elements.
C27_Witness ==
  /\ doc.pc = "saved"
  /\ doc.data.claims[1].evidence = <<QuoteOf(100), QuoteOf(101)>>
  /\ {Len(doc.blocks[i].text) : i \in QuoteLinesDrawn} = {103, 106}

\* ------------------------------------------------------------------------
\* Claims on the result shown and on the stored history
\* ------------------------------------------------------------------------
\* C28 as stated: whenever status is 'complete', the result held in state is
\* the result of the request submitted last.
C28_Original == state.status = "complete" => state.data.of = Len(reqs)

\* C29 as stated: once the stored history has been loaded, the list stored
\* under 'factCheckHistory' equals the history in memory.
C29_Original == mounted => storage = history

====
